---- MODULE Spec2Model ----
(***************************************************************************)
(* A model of the scheduling core of scarab-js: the PriorityQueue and the  *)
(* EventQueue of src/src/framework/queues.ts, lenient and strict, and the  *)
(* EntityDescription and Entity of src/src/framework/entities.ts, the      *)
(* EventHandlerList and the EntitySimulation of simulation.ts and the      *)
(* loggers of src/src/framework/logging.ts.                                *)
(*                                                                         *)
(* JavaScript values are represented as follows.                           *)
(*   - a string is a sequence of one-character strings, "" is << >>;       *)
(*   - a regular expression source is a sequence of tokens: "^", ".*" or a *)
(*     literal character;                                                  *)
(*   - an optional value (undefined / null / a value v) is << >> or <<v>>; *)
(*   - an object with integer keys is a function whose DOMAIN is the set   *)
(*     of keys that are present;                                           *)
(*   - the properties of an entity or of an entity description are a       *)
(*     function from property names to values, and a reference to such an  *)
(*     object is a number: 0 for the description, i for the i-th entity    *)
(*     made from it.                                                       *)
(***************************************************************************)
EXTENDS Integers, Sequences, FiniteSets, TLC

VARIABLES
    subject,     \* the class under test: "EventQueue", "PriorityQueue" or
                 \*   "Entity", "Logger" or "Event"
    strict,      \* TRUE: the Strict variant of the class
    priorities,  \* the priority list the constructor was given
    eq,          \* the fields of the EventQueue object
    pq,          \* the fields of the PriorityQueue object
    call,        \* the last call made on the queue and its outcome
    returned,    \* what next() returned, in order: the event, and the number
                 \*   of add calls made before it was returned
    nAdds,       \* add calls that returned normally
    nNexts,      \* next calls that returned an event
    calls,       \* add calls made (the n-th call's event has id n)
    hung,        \* TRUE once a next call entered a loop that never ends
    twin,        \* a lenient queue given the same calls as a strict queue:
                 \*   its fields and what its last call returned
    ed,          \* the EntityDescription object
    entities,    \* the Entity objects made from ed, in order of creation
    uuids,       \* the number of uuidv4() calls made
    dispatched,  \* the last call made on ed or on an entity
    sim,         \* the entities field of the EntitySimulation object
    handlerList, \* the _handlers field of the EventHandlerList object
    added,       \* the entities added to the simulation and not destroyed
                 \*   since they were last added
    evts,        \* the Event objects constructed, in order
    logger,      \* the fields of the logger object
    logged,      \* the last call made on the logger
    enabled      \* the topics given to the constructor of the logger or
                 \*   added to it, and not removed since

entityVars == <<ed, entities, uuids, dispatched>>

queueVars == <<priorities, eq, pq, call, returned, nAdds, nNexts, calls, hung,
               twin>>

simulationVars == <<sim, handlerList, added, evts>>

loggingVars == <<logger, logged, enabled>>

vars == <<subject, strict, queueVars, entityVars, simulationVars, loggingVars>>

----------------------------------------------------------------------------
(* Bounds of the model. *)

MaxAdds == 3   \* add calls made on one queue
MaxTime == 2   \* largest time an add call is given
MaxEntities == 2   \* entities made from one description
MaxHandlers == 2   \* handlers registered on one description, or put in one list
MaxLogs == 2   \* messages one logger holds
MaxEvents == 3   \* events constructed

----------------------------------------------------------------------------
(* JavaScript helpers. *)

Undefined == << >>

\* Math.min() of no arguments.
Infinity == 1000000

Range(s) == {s[i] : i \in 1..Len(s)}

Min(S) == CHOOSE x \in S : \A y \in S : x <= y

Max(S) == CHOOSE x \in S : \A y \in S : x >= y

\* Truthiness of an optional number: undefined, null and 0 are falsy.
TruthyNum(t) == t # Undefined /\ t[1] # 0

\* Truthiness of a string: the empty string is falsy.
TruthyStr(s) == s # << >>

\* The event names given to a PriorityQueue: "a", "b", "ba", "e" and "".
Names == { <<"a">>, <<"b">>, <<"b", "a">>, <<"e">>, << >> }

\* The priority lists a PriorityQueue is constructed with:
\* [], ["a","b"], ["^a.*","b"], ["b","a","b"].
PriorityLists ==
    { << >>,
      << <<"a">>, <<"b">> >>,
      << <<"^", "a", ".*">>, <<"b">> >>,
      << <<"b">>, <<"a">>, <<"b">> >> }

\* The event names given to an EventQueue: "a" and "e".
EQNames == { <<"a">>, <<"e">> }

\* The priority list an EventQueue is constructed with: ["a"].
EQPriorityLists == { << <<"a">> >> }

\* The optional times add is given as its time argument ...
Times == {Undefined} \cup { <<t>> : t \in (-1)..MaxTime }

\* ... and as event.time.
EventTimes == {Undefined, <<0>>, <<MaxTime>>}

\* The optional times add is given together with an event that has no name.
NamelessTimes == {Undefined, <<MaxTime>>}

----------------------------------------------------------------------------
(* RegExp(value).test(name): an unanchored search of name for value. *)

RECURSIVE MatchHere(_, _, _)
MatchHere(p, s, i) ==
    IF p = << >> THEN TRUE
    ELSE IF Head(p) = "^" THEN i = 0 /\ MatchHere(Tail(p), s, i)
    ELSE IF Head(p) = ".*" THEN \E j \in i..Len(s) : MatchHere(Tail(p), s, j)
    ELSE i < Len(s) /\ s[i + 1] = Head(p) /\ MatchHere(Tail(p), s, i + 1)

RegExpTest(p, s) == \E i \in 0..Len(s) : MatchHere(p, s, i)

\* A find that keeps the last element satisfying the predicate.
FindMatch_last(list, name) ==
    IF \E i \in 1..Len(list) : RegExpTest(list[i], name)
    THEN Max({i \in 1..Len(list) : RegExpTest(list[i], name)})
    ELSE 0

\* Array.prototype.find: the index of the first element satisfying the
\* predicate, 0 when there is none (find returns undefined).
FindMatch(list, name) ==
    IF \E i \in 1..Len(list) : RegExpTest(list[i], name)
    THEN Min({i \in 1..Len(list) : RegExpTest(list[i], name)})
    ELSE 0

----------------------------------------------------------------------------
(* PriorityQueue *)

\* The property keys of an array: its indices and "length".
ArrayKeys(list) == {ToString(i - 1) : i \in 1..Len(list)} \cup {"length"}

\* The pattern pushed as the catch-all: the empty regular expression.
Wildcard == << >>

\* A setPriorities that pushes no catch-all.
PQ_setPriorities_noWildcard(q, priorityList) ==
    [q EXCEPT !.priorityList = priorityList,
              !.eventQueues = [p \in Range(priorityList) |-> << >>]]

PQ_setPriorities(q, priorityList) ==
    LET list == IF "*" \notin ArrayKeys(priorityList)
                THEN Append(priorityList, Wildcard)
                ELSE priorityList
    IN [q EXCEPT !.priorityList = list,
                 !.eventQueues = [p \in Range(list) |-> << >>]]

PQ_new(priorityList) ==
    PQ_setPriorities([priorityList |-> << >>, eventQueues |-> << >>, length |-> 0],
                     priorityList)

\* add throws a TypeError when find returns undefined: there is no queue to
\* push to.
PQ_addThrows(q, event) == FindMatch(q.priorityList, event.name) = 0

\* An add that puts the event at the front of its queue.
PQ_add_unshift(q, event) ==
    LET queueName == q.priorityList[FindMatch(q.priorityList, event.name)]
    IN [q EXCEPT !.eventQueues[queueName] = <<event>> \o @,
                 !.length = @ + 1]

PQ_add(q, event) ==
    LET queueName == q.priorityList[FindMatch(q.priorityList, event.name)]
    IN [q EXCEPT !.eventQueues[queueName] = Append(@, event),
                 !.length = @ + 1]

\* The positions in the priority list whose queue holds an event.
PQ_nonEmpty(q) ==
    {i \in 1..Len(q.priorityList) : Len(q.eventQueues[q.priorityList[i]]) > 0}

\* A for loop that returns the first event and leaves it in its queue.
PQ_shift_peek(q) ==
    IF PQ_nonEmpty(q) = {} THEN [q |-> q, evt |-> Undefined]
    ELSE LET queueName == q.priorityList[Min(PQ_nonEmpty(q))]
         IN [q |-> [q EXCEPT !.length = @ - 1],
             evt |-> <<Head(q.eventQueues[queueName])>>]

\* A for loop that keeps the last queue that holds an event.
PQ_shift_lastBucket(q) ==
    IF PQ_nonEmpty(q) = {} THEN [q |-> q, evt |-> Undefined]
    ELSE LET queueName == q.priorityList[Max(PQ_nonEmpty(q))]
         IN [q |-> [q EXCEPT !.length = @ - 1,
                             !.eventQueues[queueName] = Tail(@)],
             evt |-> <<Head(q.eventQueues[queueName])>>]

\* The for loop of next: the first queue, in priority order, that holds an
\* event gives its first event.
PQ_shift(q) ==
    IF PQ_nonEmpty(q) = {} THEN [q |-> q, evt |-> Undefined]
    ELSE LET queueName == q.priorityList[Min(PQ_nonEmpty(q))]
         IN [q |-> [q EXCEPT !.length = @ - 1,
                             !.eventQueues[queueName] = Tail(@)],
             evt |-> <<Head(q.eventQueues[queueName])>>]

\* next returns the queue after the call and the optional event returned.
PQ_next(q) ==
    IF q.length = 0 THEN [q |-> q, evt |-> Undefined]
    ELSE PQ_shift(q)

PQ_isEmpty(q) == q.length = 0

\* StrictPriorityQueue.add: assert(event.name, ...)
StrictPQ_addThrows(q, event) == ~TruthyStr(event.name)

\* The messages of the errors the queues raise.
NameError == "Events must have a name."
TimeError == "Time ... is before current timeToUse (...)"
UpdateError == "Updating priority list not currently supported."
TypeError == "TypeError"
NoError == ""

\* The error StrictPriorityQueue.add raises before super.add.
StrictPQ_addError(q, event) ==
    IF ~TruthyStr(event.name) THEN NameError ELSE NoError

\* StrictPriorityQueue.add once the assert passed: super.add(event)
StrictPQ_add(q, event) == PQ_add(q, event)

\* An assert on the length of the list passed in.
StrictPQ_setPrioritiesThrows_argument(q, priorityList) == Len(priorityList) # 0

\* StrictPriorityQueue.setPriorities: assert(this._priorityList.length === 0, ...)
StrictPQ_setPrioritiesThrows(q, priorityList) == Len(q.priorityList) # 0

StrictPQ_setPriorities(q, priorityList) ==
    IF StrictPQ_setPrioritiesThrows(q, priorityList) THEN q
    ELSE PQ_setPriorities(q, priorityList)

\* new StrictPriorityQueue(priorityList): the constructor of PriorityQueue
\* calls this.setPriorities, which is the strict one.
StrictPQ_new(priorityList) ==
    StrictPQ_setPriorities([priorityList |-> << >>, eventQueues |-> << >>,
                            length |-> 0],
                           priorityList)

----------------------------------------------------------------------------
(* EventQueue *)

Put(f, k, v) == [x \in DOMAIN f \cup {k} |-> IF x = k THEN v ELSE f[x]]

Delete(f, k) == [x \in DOMAIN f \ {k} |-> f[x]]

\* Math.min(...keys): Infinity when there is no key.
MathMin(S) == IF S = {} THEN Infinity ELSE Min(S)

EQ_new(priorityList) ==
    [priorityList |-> priorityList,
     timeQueues   |-> << >>,
     length       |-> 0,
     currentQueue |-> Undefined,
     currentTime  |-> 0,
     nextTime     |-> Undefined]

\* The time add schedules the event at.
EQ_timeToUse(q, event, time) ==
    IF TruthyNum(time) THEN time[1]
    ELSE IF TruthyNum(event.time) THEN event.time[1]
    ELSE q.currentTime + 1

\* nextTime as add leaves it.
EQ_addNextTime(q, timeToUse) ==
    IF ~TruthyNum(q.nextTime) THEN <<timeToUse>> ELSE q.nextTime

\* The PriorityQueue add puts the event in: the one of the time, or a new one.
EQ_addQueue(q, timeToUse) ==
    IF timeToUse \in DOMAIN q.timeQueues
    THEN q.timeQueues[timeToUse]
    ELSE PQ_new(q.priorityList)

\* The event with its time set by add.
EQ_stamp(q, event, time) ==
    [event EXCEPT !.time = <<EQ_timeToUse(q, event, time)>>]

\* queue.add(event) throws: the call ends after nextTime and the time's queue
\* were set and before length is incremented.
EQ_addThrows(q, event, time) ==
    PQ_addThrows(EQ_addQueue(q, EQ_timeToUse(q, event, time)),
                 EQ_stamp(q, event, time))

EQ_addFailed(q, event, time) ==
    LET timeToUse == EQ_timeToUse(q, event, time)
    IN [q EXCEPT !.nextTime = EQ_addNextTime(q, timeToUse),
                 !.timeQueues = Put(@, timeToUse, EQ_addQueue(q, timeToUse))]

EQ_add(q, event, time) ==
    LET timeToUse == EQ_timeToUse(q, event, time)
        queue == PQ_add(EQ_addQueue(q, timeToUse), EQ_stamp(q, event, time))
    IN [q EXCEPT !.nextTime = EQ_addNextTime(q, timeToUse),
                 !.timeQueues = Put(@, timeToUse, queue),
                 !.length = @ + 1]

\* The while loop of next never ends: no queue is current and no time after
\* currentTime has one.
EQ_nextDiverges(q) ==
    /\ q.length # 0
    /\ q.currentQueue = Undefined
    /\ ~\E t \in DOMAIN q.timeQueues : t > q.currentTime

\* A search that goes to the last time with a queue.
EQ_advance_last(q) ==
    IF q.currentQueue # Undefined THEN q
    ELSE LET t == Max(DOMAIN q.timeQueues)
         IN [q EXCEPT !.currentTime = t, !.currentQueue = <<q.timeQueues[t]>>]

\* The while loop of next: one tick at a time to the next time with a queue.
RECURSIVE EQ_advance(_)
EQ_advance(q) ==
    IF q.currentQueue # Undefined THEN q
    ELSE LET t == q.currentTime + 1
         IN EQ_advance([q EXCEPT !.currentTime = t,
                                 !.currentQueue =
                                     IF t \in DOMAIN q.timeQueues
                                     THEN <<q.timeQueues[t]>>
                                     ELSE Undefined])

\* A next that leaves nextTime at the time served when nothing remains.
EQ_nextNextTime_noReset(currentTime, served, timeQueues, length) ==
    IF ~PQ_isEmpty(served) \/ length = 0 THEN <<currentTime>>
    ELSE <<MathMin(DOMAIN timeQueues)>>

\* A next that leaves nextTime at the time served while events remain.
EQ_nextNextTime_current(currentTime, served, timeQueues, length) ==
    IF length = 0 THEN Undefined ELSE <<currentTime>>

\* nextTime as next leaves it, given the queue just served, the remaining
\* index and the remaining length.
EQ_nextNextTime(currentTime, served, timeQueues, length) ==
    IF ~PQ_isEmpty(served) THEN <<currentTime>>
    ELSE IF length = 0 THEN Undefined
    ELSE <<MathMin(DOMAIN timeQueues)>>

\* A next that leaves length alone.
EQ_nextLength_kept(length) == length

\* length as next leaves it when it takes an event.
EQ_nextLength(length) == length - 1

\* A next that leaves the queue it serves in the index.
EQ_detach_kept(timeQueues, currentTime) == timeQueues

\* delete(this._timeQueues[this._currentTime]): the queue being served
\* leaves the index.
EQ_detach(timeQueues, currentTime) == Delete(timeQueues, currentTime)

\* A next that sets the clock back to 0 when it takes the last event.
EQ_take_reset(a) ==
    LET timeQueues == EQ_detach(a.timeQueues, a.currentTime)
        r == PQ_next(a.currentQueue[1])
        length == EQ_nextLength(a.length)
    IN [q |-> [a EXCEPT
                 !.timeQueues = timeQueues,
                 !.length = length,
                 !.currentQueue = IF PQ_isEmpty(r.q) THEN Undefined ELSE <<r.q>>,
                 !.currentTime = IF length = 0 THEN 0 ELSE @,
                 !.nextTime =
                     EQ_nextNextTime(a.currentTime, r.q, timeQueues, length)],
        evt |-> r.evt]

\* next once a queue is current: the queue's time leaves the index and the
\* queue gives its next event.
EQ_take(a) ==
    LET timeQueues == EQ_detach(a.timeQueues, a.currentTime)
        r == PQ_next(a.currentQueue[1])
        length == EQ_nextLength(a.length)
    IN [q |-> [a EXCEPT
                 !.timeQueues = timeQueues,
                 !.length = length,
                 !.currentQueue = IF PQ_isEmpty(r.q) THEN Undefined ELSE <<r.q>>,
                 !.nextTime =
                     EQ_nextNextTime(a.currentTime, r.q, timeQueues, length)],
        evt |-> r.evt]

\* A next that moves the clock one tick before it looks at length.
EQ_next_tick(q) ==
    IF q.length = 0
    THEN [q |-> [q EXCEPT !.currentTime = @ + 1], evt |-> Undefined]
    ELSE EQ_take(EQ_advance(q))

\* next returns the queue after the call and the optional event returned.
EQ_next(q) ==
    IF q.length = 0 THEN [q |-> q, evt |-> Undefined]
    ELSE EQ_take(EQ_advance(q))

EQ_isEmpty(q) == q.length = 0

\* Asserts that leave out the one on the name.
StrictEQ_addThrows_noName(q, event, time) ==
    /\ TruthyNum(time) \/ TruthyNum(event.time)
    /\ LET timeToUse == IF TruthyNum(time) THEN time[1] ELSE event.time[1]
       IN ~(timeToUse > q.currentTime)

\* A strict add that accepts the current time.
StrictEQ_addThrows_notBefore(q, event, time) ==
    \/ ~TruthyStr(event.name)
    \/ /\ TruthyNum(time) \/ TruthyNum(event.time)
       /\ LET timeToUse == IF TruthyNum(time) THEN time[1] ELSE event.time[1]
          IN ~(timeToUse >= q.currentTime)

\* A strict add that asserts the name only.
StrictEQ_addThrows_nameOnly(q, event, time) == ~TruthyStr(event.name)

\* StrictEventQueue.add: the asserts made before super.add.  Every time of
\* the model is an integer, so the Number.isInteger assert never fails here.
StrictEQ_addThrows(q, event, time) ==
    \/ ~TruthyStr(event.name)
    \/ /\ TruthyNum(time) \/ TruthyNum(event.time)
       /\ LET timeToUse == IF TruthyNum(time) THEN time[1] ELSE event.time[1]
          IN ~(timeToUse > q.currentTime)

\* The error StrictEventQueue.add raises before super.add: the first assert
\* that fails gives the message.
StrictEQ_addError(q, event, time) ==
    IF ~TruthyStr(event.name) THEN NameError
    ELSE IF StrictEQ_addThrows(q, event, time) THEN TimeError
    ELSE NoError

\* A strict add that passes the event to super.add without the time.
StrictEQ_add_noTime(q, event, time) == EQ_add(q, event, Undefined)

\* StrictEventQueue.add past its asserts: super.add(event, time)
StrictEQ_add(q, event, time) == EQ_add(q, event, time)

----------------------------------------------------------------------------
(* EntityDescription and Entity *)

\* Object.assign(target, source), on the properties of the two objects.
ObjectAssign(target, source) ==
    [k \in DOMAIN target \cup DOMAIN source |->
        IF k \in DOMAIN source THEN source[k] ELSE target[k]]

\* The four handler registries of a description and of an entity.
Kinds == {"event", "entityCreated", "entityDestroyed", "entityUpdated"}

\* The four registries as the constructors leave them: {}.
NoHandlers == [kind \in Kinds |-> << >>]

\* uuidv4(), given the number of calls made before: a value that no earlier
\* call returned.
uuidv4(issued) == "uuid-" \o ToString(issued + 1)

\* new EntityDescription(name, properties).  The properties are assigned
\* after name and guid, and before the registries.
ED_new(name, properties, guid) ==
    [props |-> ObjectAssign([name |-> name, guid |-> guid], properties),
     handlers |-> NoHandlers]

\* A registration that asserts nothing.
ED_onThrows_never(name) == FALSE

\* assert(eventName, ...) and assert(entityName, ...)
ED_onThrows(name) == name = ""

\* A registration that puts the handler in the place of the list.
ED_addToHandlerToHandlers_replace(dict, name, handler) ==
    Put(dict, name, <<handler>>)

ED_addToHandlerToHandlers(dict, name, handler) ==
    Put(dict, name,
        Append(IF name \in DOMAIN dict THEN dict[name] ELSE << >>, handler))

\* onEvent, onEntityCreated, onEntityDestroyed and onEntityUpdated: each
\* adds to the registry of its kind.
ED_on(description, kind, name, handler) ==
    IF ED_onThrows(name) THEN description
    ELSE [description EXCEPT
            !.handlers[kind] = ED_addToHandlerToHandlers(@, name, handler)]

\* A function registered as a handler, bound to no receiver: id tells the
\* functions apart, and the body is { this[writes] = payload.prop } or, for
\* a function that throws, { throw new Error() }.
Handler(id, writes, throws) ==
    [id |-> id, writes |-> writes, throws |-> throws, this |-> Undefined]

\* A bind that gives every handler the first entity as its receiver.
Bind_first(h, self) == [h EXCEPT !.this = <<1>>]

\* h.bind(this)
Bind(h, self) == [h EXCEPT !.this = <<self>>]

\* One of the four loops of _copyHandlers: a new list per name, of the
\* handlers bound to the entity.
Entity_copyRegistry(dict, self) ==
    [name \in DOMAIN dict |->
        [i \in 1..Len(dict[name]) |-> Bind(dict[name][i], self)]]

Entity_copyHandlers(description, self) ==
    [kind \in Kinds |-> Entity_copyRegistry(description.handlers[kind], self)]

\* A constructor that assigns the properties of the description after the
\* properties passed.
Entity_props_defaultsLast(description, properties, guid) ==
    Put(ObjectAssign(ObjectAssign(<< >>, properties), description.props),
        "guid", guid)

\* A constructor that sets the guid before it assigns the properties passed.
Entity_props_guidFirst(description, properties, guid) ==
    ObjectAssign(Put(ObjectAssign(<< >>, description.props), "guid", guid),
                 properties)

\* The first three statements of the Entity constructor.  Object.assign(this,
\* description) copies the registries of the description too; the
\* constructor then replaces them.
Entity_props(description, properties, guid) ==
    Put(ObjectAssign(ObjectAssign(<< >>, description.props), properties),
        "guid", guid)

\* new Entity(description, properties): self is the reference to the new
\* object.
Entity_new(description, properties, self, guid) ==
    [props |-> Entity_props(description, properties, guid),
     handlers |-> Entity_copyHandlers(description, self)]

\* A call that never throws.
CallThrows_never(h) == FALSE

\* Calling a handler throws when its body does, and throws a TypeError when
\* it has no receiver: the body assigns to a property of undefined.
CallThrows(h) == h.throws \/ h.this = Undefined

\* What the call of h with a payload leaves in the record of calls.
Called(h, value) == [id |-> h.id, this |-> h.this, value |-> value]

\* h(payload): the body writes a property of the receiver of h.  w holds the
\* description and the entities.
Call(h, value, w) ==
    IF h.this[1] = 0
    THEN [w EXCEPT !.ed.props = Put(@, h.writes, value)]
    ELSE [w EXCEPT !.entities[h.this[1]].props = Put(@, h.writes, value)]

\* A loop that calls the first handler only.
Invoke_firstOnly(handlers, value, w) ==
    IF handlers = << >> THEN w
    ELSE LET h == Head(handlers)
             called == [w EXCEPT !.invoked = Append(@, Called(h, value))]
         IN IF CallThrows(h) THEN [called EXCEPT !.threw = TRUE]
            ELSE Call(h, value, called)

\* for (const h of handlers) { h(payload); }: the loop ends at the first
\* handler that throws.  w.invoked records the calls made.
RECURSIVE Invoke(_, _, _)
Invoke(handlers, value, w) ==
    IF handlers = << >> THEN w
    ELSE LET h == Head(handlers)
             called == [w EXCEPT !.invoked = Append(@, Called(h, value))]
         IN IF CallThrows(h) THEN [called EXCEPT !.threw = TRUE]
            ELSE Invoke(Tail(handlers), value, Call(h, value, called))

\* A dispatch that looks the name up in the registry of the description, as
\* it is when the event is handled.
Entity_handle_live(w, self, kind, name, value) ==
    LET dict == Entity_copyRegistry(w.ed.handlers[kind], self)
    IN IF name \in DOMAIN dict THEN Invoke(dict[name], value, w) ELSE w

\* A dispatch that looks the name up in every registry.
Entity_handle_anyKind(w, self, kind, name, value) ==
    LET found == {k \in Kinds : name \in DOMAIN w.entities[self].handlers[k]}
    IN IF found = {} THEN w
       ELSE Invoke(w.entities[self].handlers[CHOOSE k \in found : TRUE][name],
                   value, w)

\* handleEvent, handleEntityCreated, handleEntityDestroyed and
\* handleEntityUpdated on the entity self: each looks the name up in the
\* registry of its kind.
Entity_handle(w, self, kind, name, value) ==
    LET dict == w.entities[self].handlers[kind]
    IN IF name \in DOMAIN dict THEN Invoke(dict[name], value, w) ELSE w

\* The description and the entities before a dispatch: nothing was called
\* or thrown yet.
World(description, made) ==
    [ed |-> description, entities |-> made, threw |-> FALSE, invoked |-> << >>]

\* The name of the description.
EntityName == "entity"

\* The properties a description is made with.
DescriptionProperties == {[prop |-> 1, prop2 |-> "two"]}

\* The name handlers of a kind are registered under.
HandlerName(kind) == IF kind = "event" THEN "event" ELSE "other_entity"

\* The names dispatched: the one with handlers and one without.
DispatchNames(kind) ==
    {HandlerName(kind), IF kind = "event" THEN "event2" ELSE "unknown_entity"}

\* The value of prop an event or a notification carries.
Values == {3}

----------------------------------------------------------------------------
(* A queue of either class under any sequence of add and next calls. *)

\* No call was made yet on the description or on an entity.
NoDispatch == [op |-> "new", to |-> 0, kind |-> "", name |-> "", value |-> 0,
               properties |-> << >>, threw |-> FALSE, handler |-> "",
               invoked |-> << >>]

NoCall == [op |-> "new", name |-> << >>, time |-> Undefined, etime |-> Undefined,
           threw |-> FALSE, error |-> NoError, evt |-> Undefined,
           list |-> << >>]

NextCall(evt) == [op |-> "next", name |-> << >>, time |-> Undefined,
                  etime |-> Undefined, threw |-> FALSE, error |-> NoError,
                  evt |-> evt, list |-> << >>]

\* The lenient queue made beside a strict one, with the same class and the
\* same priority list: new EventQueue(priorityList) or
\* new PriorityQueue(priorityList).
Twin(class, priorityList) ==
    [eq |-> EQ_new(IF class = "EventQueue" THEN priorityList ELSE << >>),
     pq |-> PQ_new(IF class = "PriorityQueue" THEN priorityList ELSE << >>),
     evt |-> Undefined]

\* No lenient queue is made beside a lenient one.
NoTwin == Twin("", << >>)

----------------------------------------------------------------------------
(* EventHandlerList and EntitySimulation of simulation.ts.  The _handlers  *)
(* of a list, an object keyed by entity guid, is a sequence of             *)
(* [guid, handlers] in the order the keys were inserted, which is the      *)
(* order Object.values follows for keys that are not array indices.        *)

\* new EventHandlerList(eventName): this._handlers = {}
EHL_new == << >>

\* addHandler(entityGuid, handler)
EHL_addHandler(list, entityGuid, handler) ==
    IF \E i \in 1..Len(list) : list[i].guid = entityGuid
    THEN [i \in 1..Len(list) |->
            IF list[i].guid = entityGuid
            THEN [list[i] EXCEPT !.handlers = Append(@, handler)]
            ELSE list[i]]
    ELSE Append(list, [guid |-> entityGuid, handlers |-> <<handler>>])

\* A removeHandlers that deletes nothing.
EHL_removeHandlers_kept(list, entityGuid) == list

\* removeHandlers(entityGuid): delete this._handlers[entityGuid]
EHL_removeHandlers(list, entityGuid) ==
    SelectSeq(list, LAMBDA entry : entry.guid # entityGuid)

\* A loop without the try: the first handler that throws ends it.
InvokeCaught_uncaught(handlers, value, w) == Invoke(handlers, value, w)

\* for (const h of handlers) { try { h(event) } catch (err) { ... } }: a
\* handler that throws is reported and the loop goes on.
RECURSIVE InvokeCaught(_, _, _)
InvokeCaught(handlers, value, w) ==
    IF handlers = << >> THEN w
    ELSE LET h == Head(handlers)
             called == [w EXCEPT !.invoked = Append(@, Called(h, value))]
         IN InvokeCaught(Tail(handlers), value,
                         IF CallThrows(h) THEN called
                         ELSE Call(h, value, called))

\* invoke(event): the handlers of every entity, entity by entity
RECURSIVE EHL_invoke(_, _, _)
EHL_invoke(list, value, w) ==
    IF list = << >> THEN w
    ELSE EHL_invoke(Tail(list), value,
                    InvokeCaught(Head(list).handlers, value, w))

\* new EntitySimulation(): this.entities = {}, from guid to entity
SIM_new == << >>

\* A simulation that keeps its entities by name.
SIM_addEntity_byName(dict, entity, ref) == Put(dict, entity.props["name"], ref)

\* addEntity(entity): this.entities[entity.guid] = entity
SIM_addEntity(dict, entity, ref) == Put(dict, entity.props["guid"], ref)

\* An argument of destroyEntity: an Entity or anything else, a string.
AnEntity(entity) == [isEntity |-> TRUE, entity |-> entity]
AGuid(guid) == [isEntity |-> FALSE, guid |-> guid]

\* destroyEntity(entityOrGUID)
SIM_destroyEntity(dict, entityOrGUID) ==
    IF entityOrGUID.isEntity
    THEN Delete(dict, entityOrGUID.entity.props["guid"])
    ELSE Delete(dict, entityOrGUID.guid)

\* numberEntities(): Object.keys(this.entities).length
SIM_numberEntities(dict) == Cardinality(DOMAIN dict)

----------------------------------------------------------------------------
(* The loggers of logging.ts.  A topic is a string taken whole; a message  *)
(* is a sequence of characters.                                            *)

\* new StringLogger(topics): the topics of the list enabled, nothing written
StringLogger_new(topics) ==
    [topics |-> {topics[i] : i \in 1..Len(topics)}, buffer |-> << >>]

\* addTopic(topic): this._topics.add(topic)
Logger_addTopic(l, topic) == [l EXCEPT !.topics = @ \cup {topic}]

\* removeTopic(topic): this._topics.delete(topic)
Logger_removeTopic(l, topic) == [l EXCEPT !.topics = @ \ {topic}]

\* StringLogger._write(message): this._buffer.push(message)
StringLogger_write(l, message) == [l EXCEPT !.buffer = Append(@, message)]

\* A logger that writes whatever the topic.
Logger_log_always(l, topic, message) == StringLogger_write(l, message)

\* log(topic, message): if (this._topics.has(topic)) this._write(message)
Logger_log(l, topic, message) ==
    IF topic \in l.topics THEN StringLogger_write(l, message) ELSE l

\* The names x for which (x in aSet) holds: the properties a Set object
\* inherits from Set.prototype and Object.prototype.  Its elements are not
\* properties of it.
SetProperties ==
    {"constructor", "has", "add", "delete", "clear", "entries", "forEach",
     "size", "values", "keys", "hasOwnProperty", "isPrototypeOf",
     "propertyIsEnumerable", "toLocaleString", "toString", "valueOf",
     "__proto__"}

\* isLogging(topic): return (topic in this._topics)
Logger_isLogging(l, topic) == topic \in SetProperties

\* clear(): this._buffer = []
StringLogger_clear(l) == [l EXCEPT !.buffer = << >>]

\* s.includes(value): value is found in s at some position
Includes(s, value) ==
    \E i \in 0..(Len(s) - Len(value)) : SubSeq(s, i + 1, i + Len(value)) = value

\* contains(value, checkSubstr) over the messages of the buffer: a message
\* is tested only inside if (checkSubstr), for includes first and in the
\* else of that for equality.
RECURSIVE StringLogger_contains(_, _, _)
StringLogger_contains(buffer, value, checkSubstr) ==
    IF buffer = << >> THEN FALSE
    ELSE LET s == Head(buffer)
             rest == StringLogger_contains(Tail(buffer), value, checkSubstr)
         IN IF checkSubstr
            THEN IF Includes(s, value) THEN TRUE
                 ELSE IF s = value THEN TRUE ELSE rest
            ELSE rest

\* The logger just constructed: nothing called yet.
NoLog == [op |-> "new", topic |-> "", message |-> << >>, threw |-> FALSE,
          checkSubstr |-> TRUE, result |-> Undefined]

----------------------------------------------------------------------------
\* new EventQueue(priorityList), new StrictEventQueue(priorityList),
\* new PriorityQueue(priorityList) or new StrictPriorityQueue(priorityList)
Init ==
    /\ subject \in {"EventQueue", "PriorityQueue"}
    /\ strict \in BOOLEAN
    /\ priorities \in IF subject = "EventQueue" THEN EQPriorityLists
                      ELSE PriorityLists
    /\ eq = EQ_new(IF subject = "EventQueue" THEN priorities ELSE << >>)
    /\ pq = IF subject = "PriorityQueue"
            THEN IF strict THEN StrictPQ_new(priorities) ELSE PQ_new(priorities)
            ELSE PQ_new(<< >>)
    /\ call = NoCall
    /\ returned = << >>
    /\ nAdds = 0
    /\ nNexts = 0
    /\ calls = 0
    /\ hung = FALSE
    /\ twin = IF strict THEN Twin(subject, priorities) ELSE NoTwin
    /\ ed = ED_new(EntityName, << >>, uuidv4(0))
    /\ entities = << >>
    /\ uuids = 1
    /\ dispatched = NoDispatch
    /\ sim = SIM_new
    /\ handlerList = EHL_new
    /\ added = {}
    /\ evts = << >>
    /\ logger = StringLogger_new(<< >>)
    /\ logged = NoLog
    /\ enabled = {}

\* What a next call that returned evt leaves in the history.
Returned(evt) ==
    IF evt = Undefined THEN returned
    ELSE Append(returned, [evt |-> evt[1], at |-> calls])

\* eventQueue.add(event, time) with event = {name, time: etime}
Add(name, time, etime) ==
    LET event == [id |-> calls + 1, name |-> name, time |-> etime]
        rejected == strict /\ StrictEQ_addThrows(eq, event, time)
        threw == rejected \/ EQ_addThrows(eq, event, time)
    IN /\ subject = "EventQueue"
       /\ ~hung
       /\ calls < MaxAdds
       /\ calls' = calls + 1
       /\ eq' = IF rejected THEN eq
                ELSE IF threw THEN EQ_addFailed(eq, event, time)
                ELSE IF strict THEN StrictEQ_add(eq, event, time)
                ELSE EQ_add(eq, event, time)
       /\ nAdds' = IF threw THEN nAdds ELSE nAdds + 1
       /\ call' = [op |-> "add", name |-> name, time |-> time, etime |-> etime,
                   threw |-> threw,
                   error |-> IF rejected THEN StrictEQ_addError(eq, event, time)
                             ELSE IF threw THEN TypeError ELSE NoError,
                   evt |-> Undefined, list |-> << >>]
       /\ UNCHANGED <<simulationVars, loggingVars, entityVars, twin, subject, strict, priorities, pq, returned, nNexts, hung>>

\* eventQueue.next() that returns
NextReturns ==
    /\ subject = "EventQueue"
    /\ ~hung
    /\ ~EQ_nextDiverges(eq)
    /\ LET r == EQ_next(eq)
       IN /\ eq' = r.q
          /\ returned' = Returned(r.evt)
          /\ nNexts' = IF r.evt = Undefined THEN nNexts ELSE nNexts + 1
          /\ call' = NextCall(r.evt)
    /\ UNCHANGED <<simulationVars, loggingVars, entityVars, twin, subject, strict, priorities, pq, nAdds, calls, hung>>

\* eventQueue.next() that never returns
NextHangs ==
    /\ subject = "EventQueue"
    /\ ~hung
    /\ EQ_nextDiverges(eq)
    /\ hung' = TRUE
    /\ call' = NextCall(Undefined)
    /\ UNCHANGED <<simulationVars, loggingVars, entityVars, twin, subject, strict, priorities, eq, pq, returned, nAdds, nNexts,
                   calls>>

\* priorityQueue.add(event) with event = {name}
PQAdd(name) ==
    LET event == [id |-> calls + 1, name |-> name, time |-> Undefined]
        threw == (strict /\ StrictPQ_addThrows(pq, event)) \/ PQ_addThrows(pq, event)
    IN /\ subject = "PriorityQueue"
       /\ calls < MaxAdds
       /\ calls' = calls + 1
       /\ pq' = IF threw THEN pq
                ELSE IF strict THEN StrictPQ_add(pq, event)
                ELSE PQ_add(pq, event)
       /\ nAdds' = IF threw THEN nAdds ELSE nAdds + 1
       /\ call' = [op |-> "add", name |-> name, time |-> Undefined,
                   etime |-> Undefined, threw |-> threw,
                   error |-> IF strict /\ StrictPQ_addThrows(pq, event)
                             THEN StrictPQ_addError(pq, event)
                             ELSE IF threw THEN TypeError ELSE NoError,
                   evt |-> Undefined, list |-> << >>]
       /\ UNCHANGED <<simulationVars, loggingVars, entityVars, twin, subject, strict, priorities, eq, returned, nNexts, hung>>

\* priorityQueue.next()
PQNext ==
    /\ subject = "PriorityQueue"
    /\ LET r == PQ_next(pq)
       IN /\ pq' = r.q
          /\ returned' = Returned(r.evt)
          /\ nNexts' = IF r.evt = Undefined THEN nNexts ELSE nNexts + 1
          /\ call' = NextCall(r.evt)
    /\ UNCHANGED <<simulationVars, loggingVars, entityVars, twin, subject, strict, priorities, eq, nAdds, calls, hung>>

\* strictEventQueue.add(event, time) with event = {} or {name: ""}.  The
\* lenient queue is not given such an event: it would queue it like any
\* other event whose name matches no pattern.
AddNameless(time) == strict /\ Add(<< >>, time, Undefined)

Next ==
    \/ \E name \in EQNames, time \in Times, etime \in EventTimes :
          Add(name, time, etime)
    \/ \E time \in NamelessTimes : AddNameless(time)
    \/ NextReturns
    \/ NextHangs
    \/ \E name \in Names : PQAdd(name)
    \/ PQNext

Spec == Init /\ [][Next]_vars

----------------------------------------------------------------------------
(* A priority queue whose priority list is set again after construction. *)

\* priorityQueue.setPriorities(priorityList)
PQSetPriorities(priorityList) ==
    LET threw == strict /\ StrictPQ_setPrioritiesThrows(pq, priorityList)
    IN /\ subject = "PriorityQueue"
       /\ pq' = IF strict THEN StrictPQ_setPriorities(pq, priorityList)
                ELSE PQ_setPriorities(pq, priorityList)
       /\ priorities' = IF threw THEN priorities ELSE priorityList
       /\ call' = [op |-> "setPriorities", name |-> << >>, time |-> Undefined,
                   etime |-> Undefined, threw |-> threw,
                   error |-> IF threw THEN UpdateError ELSE NoError,
                   evt |-> Undefined, list |-> priorityList]
       /\ UNCHANGED <<simulationVars, loggingVars, entityVars, twin, subject, strict, eq, returned, nAdds, nNexts, calls, hung>>

InitPriorityQueue == Init /\ subject = "PriorityQueue"

NextPriorityQueue ==
    \/ \E name \in Names : PQAdd(name)
    \/ PQNext
    \/ \E priorityList \in PriorityLists : PQSetPriorities(priorityList)

SpecPriorityQueue == InitPriorityQueue /\ [][NextPriorityQueue]_vars

----------------------------------------------------------------------------
(* A strict queue and a lenient queue of the same class, built with the    *)
(* same priority list and given the same calls, as long as the strict      *)
(* queue raises no error.  The strict queue is eq or pq, the lenient one   *)
(* is twin.eq or twin.pq.                                                  *)

\* strictEventQueue.add(event, time) and eventQueue.add(event, time)
BothAdd(name, time, etime) ==
    LET event == [id |-> calls + 1, name |-> name, time |-> etime]
    IN /\ subject = "EventQueue"
       /\ calls < MaxAdds
       /\ ~StrictEQ_addThrows(eq, event, time)
       /\ ~EQ_addThrows(eq, event, time)
       /\ calls' = calls + 1
       /\ nAdds' = nAdds + 1
       /\ eq' = StrictEQ_add(eq, event, time)
       /\ twin' = [twin EXCEPT
                     !.eq = IF EQ_addThrows(@, event, time)
                            THEN EQ_addFailed(@, event, time)
                            ELSE EQ_add(@, event, time),
                     !.evt = Undefined]
       /\ call' = [op |-> "add", name |-> name, time |-> time, etime |-> etime,
                   threw |-> FALSE, error |-> NoError, evt |-> Undefined,
                   list |-> << >>]
       /\ UNCHANGED <<simulationVars, loggingVars, entityVars, subject, strict, priorities, pq, returned, nNexts, hung>>

\* next() on both event queues
BothNext ==
    /\ subject = "EventQueue"
    /\ ~EQ_nextDiverges(eq)
    /\ ~EQ_nextDiverges(twin.eq)
    /\ LET r == EQ_next(eq)
           t == EQ_next(twin.eq)
       IN /\ eq' = r.q
          /\ twin' = [twin EXCEPT !.eq = t.q, !.evt = t.evt]
          /\ returned' = Returned(r.evt)
          /\ nNexts' = IF r.evt = Undefined THEN nNexts ELSE nNexts + 1
          /\ call' = NextCall(r.evt)
    /\ UNCHANGED <<simulationVars, loggingVars, entityVars, subject, strict, priorities, pq, nAdds, calls, hung>>

\* strictPriorityQueue.add(event) and priorityQueue.add(event)
BothPQAdd(name) ==
    LET event == [id |-> calls + 1, name |-> name, time |-> Undefined]
    IN /\ subject = "PriorityQueue"
       /\ calls < MaxAdds
       /\ ~StrictPQ_addThrows(pq, event)
       /\ ~PQ_addThrows(pq, event)
       /\ calls' = calls + 1
       /\ nAdds' = nAdds + 1
       /\ pq' = StrictPQ_add(pq, event)
       /\ twin' = [twin EXCEPT
                     !.pq = IF PQ_addThrows(@, event) THEN @ ELSE PQ_add(@, event),
                     !.evt = Undefined]
       /\ call' = [op |-> "add", name |-> name, time |-> Undefined,
                   etime |-> Undefined, threw |-> FALSE, error |-> NoError,
                   evt |-> Undefined, list |-> << >>]
       /\ UNCHANGED <<simulationVars, loggingVars, entityVars, subject, strict, priorities, eq, returned, nNexts, hung>>

\* next() on both priority queues
BothPQNext ==
    /\ subject = "PriorityQueue"
    /\ LET r == PQ_next(pq)
           t == PQ_next(twin.pq)
       IN /\ pq' = r.q
          /\ twin' = [twin EXCEPT !.pq = t.q, !.evt = t.evt]
          /\ returned' = Returned(r.evt)
          /\ nNexts' = IF r.evt = Undefined THEN nNexts ELSE nNexts + 1
          /\ call' = NextCall(r.evt)
    /\ UNCHANGED <<simulationVars, loggingVars, entityVars, subject, strict, priorities, eq, nAdds, calls, hung>>

InitBoth == Init /\ strict

NextBoth ==
    \/ \E name \in EQNames, time \in Times, etime \in EventTimes :
          BothAdd(name, time, etime)
    \/ BothNext
    \/ \E name \in Names : BothPQAdd(name)
    \/ BothPQNext

SpecBoth == InitBoth /\ [][NextBoth]_vars

----------------------------------------------------------------------------
(* An entity description, the entities made from it and the events and     *)
(* notifications dispatched to them.                                       *)

\* The guids in use: of the description and of the entities.
KnownGuids ==
    {ed.props["guid"]} \cup {entities[i].props["guid"] : i \in 1..Len(entities)}

\* The properties passed to entity(): none, a value for prop, or a guid: one
\* the caller made up or one that is in use.
EntityProperties ==
    {<< >>, [prop |-> 3], [guid |-> "abc"]}
        \cup {[guid |-> g] : g \in KnownGuids}

\* new EntityDescription("entity", properties); no queue is under test.
InitEntities ==
    /\ subject = "Entity"
    /\ strict = FALSE
    /\ priorities = << >>
    /\ eq = EQ_new(<< >>)
    /\ pq = PQ_new(<< >>)
    /\ call = NoCall
    /\ returned = << >>
    /\ nAdds = 0
    /\ nNexts = 0
    /\ calls = 0
    /\ hung = FALSE
    /\ twin = NoTwin
    /\ \E properties \in DescriptionProperties :
          ed = ED_new(EntityName, properties, uuidv4(0))
    /\ entities = << >>
    /\ uuids = 1
    /\ dispatched = NoDispatch
    /\ sim = SIM_new
    /\ handlerList = EHL_new
    /\ added = {}
    /\ evts = << >>
    /\ logger = StringLogger_new(<< >>)
    /\ logged = NoLog
    /\ enabled = {}

\* ed.onEvent(name, handler), ed.onEntityCreated(name, handler),
\* ed.onEntityDestroyed(name, handler) or ed.onEntityUpdated(name, handler),
\* for a name that has no handler yet; the handler writes prop.
On(kind) ==
    /\ subject = "Entity"
    /\ HandlerName(kind) \notin DOMAIN ed.handlers[kind]
    /\ ed' = ED_on(ed, kind, HandlerName(kind), Handler("f", "prop", FALSE))
    /\ dispatched' = [NoDispatch EXCEPT !.op = "on", !.kind = kind,
                                        !.name = HandlerName(kind),
                                        !.handler = "f"]
    /\ UNCHANGED <<simulationVars, loggingVars, subject, strict, queueVars, entities, uuids>>

\* ed.entity(properties)
CreateEntity(properties) ==
    /\ subject = "Entity"
    /\ Len(entities) < MaxEntities
    /\ entities' = Append(entities,
                          Entity_new(ed, properties, Len(entities) + 1,
                                     uuidv4(uuids)))
    /\ uuids' = uuids + 1
    /\ dispatched' = [NoDispatch EXCEPT !.op = "entity",
                                        !.to = Len(entities) + 1,
                                        !.properties = properties]
    /\ UNCHANGED <<simulationVars, loggingVars, subject, strict, queueVars, ed>>

\* entities[self].handleEvent({name, prop: value}) for the kind "event",
\* handleEntityCreated, handleEntityDestroyed or handleEntityUpdated with
\* {name, prop: value} for the other kinds.
Handle(self, kind, name, value) ==
    /\ subject = "Entity"
    /\ LET w == Entity_handle(World(ed, entities), self, kind, name, value)
       IN /\ ed' = w.ed
          /\ entities' = w.entities
          /\ dispatched' = [NoDispatch EXCEPT !.op = "handle", !.to = self,
                                              !.kind = kind, !.name = name,
                                              !.value = value,
                                              !.threw = w.threw,
                                              !.invoked = w.invoked]
    /\ UNCHANGED <<simulationVars, loggingVars, subject, strict, queueVars, uuids>>

NextEntities ==
    \/ \E kind \in Kinds : On(kind)
    \/ \E properties \in EntityProperties : CreateEntity(properties)
    \/ \E self \in 1..Len(entities), kind \in Kinds, value \in Values :
          \E name \in DispatchNames(kind) : Handle(self, kind, name, value)

SpecEntities == InitEntities /\ [][NextEntities]_vars

----------------------------------------------------------------------------
(* An entity description and the one entity made from it: handlers are     *)
(* registered, several under one name, before and after the entity is      *)
(* made; some of them throw; a default property of the description is      *)
(* changed.                                                                *)

\* The functions registered: f and g write prop, t throws.
HandlerFunctions ==
    {Handler("f", "prop", FALSE), Handler("g", "prop", FALSE),
     Handler("t", "prop", TRUE)}

\* The properties passed to entity(): none, or a value for prop and one for
\* a property the description does not have.
OverrideProperties == {<< >>, [prop |-> 3, prop3 |-> "xxx"]}

\* The number of handlers a description holds.
RECURSIVE CountNames(_, _)
CountNames(dict, names) ==
    IF names = {} THEN 0
    ELSE LET name == CHOOSE n \in names : TRUE
         IN Len(dict[name]) + CountNames(dict, names \ {name})

RECURSIVE Count(_, _)
Count(description, kinds) ==
    IF kinds = {} THEN 0
    ELSE LET kind == CHOOSE k \in kinds : TRUE
             dict == description.handlers[kind]
         IN CountNames(dict, DOMAIN dict) + Count(description, kinds \ {kind})

\* ed.onEvent(name, h), ed.onEntityCreated(name, h),
\* ed.onEntityDestroyed(name, h) or ed.onEntityUpdated(name, h)
Register(kind, name, h) ==
    /\ subject = "Entity"
    /\ Count(ed, Kinds) < MaxHandlers
    /\ ed' = ED_on(ed, kind, name, h)
    /\ dispatched' = [NoDispatch EXCEPT !.op = "on", !.kind = kind,
                                        !.name = name, !.handler = h.id,
                                        !.threw = ED_onThrows(name)]
    /\ UNCHANGED <<simulationVars, loggingVars, subject, strict, queueVars, entities, uuids>>

\* The same with an empty name: ed.onEvent("", f) and so on.
RegisterNameless(kind) == Register(kind, "", Handler("f", "prop", FALSE))

\* ed.onEvent("event2", f): a second name in the registry of events
RegisterOther == Register("event", "event2", Handler("f", "prop", FALSE))

\* ed.entity(properties), once
CreateOnly(properties) ==
    /\ entities = << >>
    /\ CreateEntity(properties)

\* ed.prop = value
SetDefault(value) ==
    /\ subject = "Entity"
    /\ ed' = [ed EXCEPT !.props = Put(@, "prop", value)]
    /\ dispatched' = [NoDispatch EXCEPT !.op = "set", !.value = value]
    /\ UNCHANGED <<simulationVars, loggingVars, subject, strict, queueVars, entities, uuids>>

NextHandlers ==
    \/ \E kind \in Kinds, h \in HandlerFunctions :
          Register(kind, HandlerName(kind), h)
    \/ \E kind \in Kinds : RegisterNameless(kind)
    \/ RegisterOther
    \/ \E properties \in OverrideProperties : CreateOnly(properties)
    \/ \E value \in Values : SetDefault(value)
    \/ \E self \in 1..Len(entities), kind \in Kinds, value \in Values :
          \E name \in DispatchNames(kind) : Handle(self, kind, name, value)

SpecHandlers == InitEntities /\ [][NextHandlers]_vars

----------------------------------------------------------------------------
(* Vocabulary of the properties. *)

IsEQ == subject = "EventQueue"
IsPQ == subject = "PriorityQueue"

\* The position, in the declared list followed by the catch-all, of the
\* first pattern the name matches: the rank of the name's bucket.
BucketRank(name) ==
    LET declared == {i \in 1..Len(priorities) : RegExpTest(priorities[i], name)}
    IN IF declared = {} THEN Len(priorities) + 1 ELSE Min(declared)

\* The events a PriorityQueue object holds.
HeldBy(q) == UNION {Range(q.eventQueues[p]) : p \in DOMAIN q.eventQueues}

\* The events the EventQueue holds: in the index or in the current queue.
Queued ==
    UNION {HeldBy(eq.timeQueues[t]) : t \in DOMAIN eq.timeQueues}
      \cup (IF eq.currentQueue = Undefined THEN {} ELSE HeldBy(eq.currentQueue[1]))

\* x comes before y in the order (time, bucket rank, insertion).
ComesBefore(x, y) ==
    \/ x.time[1] < y.time[1]
    \/ /\ x.time[1] = y.time[1]
       /\ \/ BucketRank(x.name) < BucketRank(y.name)
          \/ BucketRank(x.name) = BucketRank(y.name) /\ x.id < y.id

----------------------------------------------------------------------------
(* C1: the events a StrictEventQueue has returned from next(), whatever    *)
(* the interleaving of accepted add calls and next calls, are in the order *)
(* (time ascending, rank of the matched bucket ascending, insertion order  *)
(* ascending).                                                             *)
C1_NextOrder ==
    (IsEQ /\ strict) =>
        \A i, j \in 1..Len(returned) :
            i < j => ComesBefore(returned[i].evt, returned[j].evt)

\* Three events returned by a strict queue: the first was added after the
\* second (bucket rank decided), an add came between two next calls, and the
\* third has a later time.
C1_Witness ==
    /\ IsEQ /\ strict
    /\ Len(returned) = 3
    /\ returned[1].evt.id > returned[2].evt.id
    /\ returned[1].evt.time = returned[2].evt.time
    /\ returned[2].evt.time[1] < returned[3].evt.time[1]
    /\ returned[2].at < returned[3].evt.id

----------------------------------------------------------------------------
(* C2: two EventQueue objects given the same priority list and the same    *)
(* calls agree on every result.  Every operation of the queue is modelled  *)
(* as an operator of the queue's fields and the call's arguments, which is *)
(* what the code is (no clock, no random source, no identifier enters the  *)
(* queue's decisions), so the agreement of two copies is the agreement of  *)
(* two evaluations of one operator: no formula is stated for it.           *)

----------------------------------------------------------------------------
\* Every add call came before the first next call that returned an event.
AllAddsPrecedeDrain == \A k \in 1..Len(returned) : returned[k].at = calls

\* The name matches a pattern declared before position rank.
MatchesBefore(name, rank) ==
    \E i \in 1..Len(priorities) : i < rank /\ RegExpTest(priorities[i], name)

(* C3: when all add calls on a PriorityQueue precede the drain, an event   *)
(* whose name matches an earlier-declared pattern is returned before any   *)
(* event routed to a later-declared pattern, and the events that match no  *)
(* declared pattern are returned last.                                     *)
C3_PatternPrecedence ==
    (IsPQ /\ AllAddsPrecedeDrain) =>
        \A k \in 1..Len(returned) :
            LET rank == BucketRank(returned[k].evt.name)
            IN /\ \A x \in HeldBy(pq) : ~MatchesBefore(x.name, rank)
               /\ \A m \in (k + 1)..Len(returned) :
                     ~MatchesBefore(returned[m].evt.name, rank)

\* The queue ["a","b"] drained of three events added before the drain, the
\* last added returned first and an unmatched name returned last.
C3_Witness ==
    /\ IsPQ /\ AllAddsPrecedeDrain
    /\ priorities = << <<"a">>, <<"b">> >>
    /\ Len(returned) = 3 /\ pq.length = 0
    /\ returned[1].evt.id = 3
    /\ returned[2].evt.name = <<"b">>
    /\ returned[3].evt.name = <<"e">>

----------------------------------------------------------------------------
\* The key of the bucket of the first declared pattern the name matches, the
\* catch-all's when it matches none.
BucketKey(name) ==
    IF BucketRank(name) <= Len(priorities) THEN priorities[BucketRank(name)]
    ELSE Wildcard

(* C4: PriorityQueue.add (past the strict variant's name check) never      *)
(* throws, raises length by exactly 1 and appends the event to exactly one *)
(* bucket, that of the first declared pattern matching its name, or the    *)
(* wildcard bucket when none matches; all other buckets are unchanged.     *)
C4_AddPlacesInOneBucket ==
    [][ (IsPQ /\ calls' = calls + 1 /\ (strict => TruthyStr(call'.name))) =>
          /\ ~call'.threw
          /\ pq'.length = pq.length + 1
          /\ DOMAIN pq'.eventQueues = DOMAIN pq.eventQueues
          /\ BucketKey(call'.name) \in DOMAIN pq.eventQueues
          /\ \A p \in DOMAIN pq.eventQueues :
                pq'.eventQueues[p] =
                    IF p = BucketKey(call'.name)
                    THEN Append(pq.eventQueues[p],
                                [id |-> calls', name |-> call'.name,
                                 time |-> Undefined])
                    ELSE pq.eventQueues[p]
      ]_vars

\* Three adds on the queue ["a","b"]: "ba" went to the bucket of "a" (the
\* first of the two patterns it matches) while an unmatched name sits in the
\* wildcard bucket.
C4_Witness ==
    /\ IsPQ /\ call.op = "add" /\ ~call.threw /\ pq.length = 3
    /\ priorities = << <<"a">>, <<"b">> >>
    /\ call.name = <<"b", "a">>
    /\ \E x \in Range(pq.eventQueues[<<"a">>]) : x.id = calls
    /\ Len(pq.eventQueues[Wildcard]) = 1

\* Three adds on a queue built from the empty list: all in the wildcard bucket.
C4_WitnessEmptyList ==
    /\ IsPQ /\ call.op = "add" /\ ~call.threw
    /\ priorities = << >>
    /\ Len(pq.eventQueues[Wildcard]) = 3

----------------------------------------------------------------------------
\* e is the event the order (bucket rank, insertion) puts first in S.
FirstOf(e, S) ==
    /\ e \in S
    /\ \A x \in S : \/ BucketRank(e.name) < BucketRank(x.name)
                    \/ BucketRank(e.name) = BucketRank(x.name) /\ e.id <= x.id

(* C5: for any interleaving of add and next calls on a PriorityQueue, the  *)
(* events of one bucket are returned in the order they were added, and     *)
(* every next() call made while an event is held returns the head of the   *)
(* highest-priority non-empty bucket and removes exactly that event.       *)
C5_FifoWithinBucket ==
    /\ [](IsPQ =>
            \A k \in 1..Len(returned) :
                LET y == returned[k].evt
                IN /\ \A x \in HeldBy(pq) :
                        BucketRank(x.name) = BucketRank(y.name) => y.id < x.id
                   /\ \A m \in (k + 1)..Len(returned) :
                        BucketRank(returned[m].evt.name) = BucketRank(y.name)
                            => y.id < returned[m].evt.id)
    /\ [][ (IsPQ /\ call'.op = "next" /\ HeldBy(pq) # {}) =>
             /\ call'.evt # Undefined
             /\ FirstOf(call'.evt[1], HeldBy(pq))
             /\ HeldBy(pq') = HeldBy(pq) \ {call'.evt[1]}
         ]_vars

\* An add between two next calls: two events of one bucket came out in the
\* order added, ahead of an event of another bucket that was added before
\* the second of them and is still held.
C5_Witness ==
    /\ IsPQ
    /\ Len(returned) = 2
    /\ returned[1].at < calls
    /\ BucketRank(returned[1].evt.name) = BucketRank(returned[2].evt.name)
    /\ returned[1].evt.id < returned[2].evt.id
    /\ \E x \in HeldBy(pq) : x.id < returned[2].evt.id

----------------------------------------------------------------------------
\* The time the add call is to schedule at: the time argument when one is
\* given, else event.time when it is set, else currentTime + 1.
RequestedTime ==
    IF call.time # Undefined THEN call.time[1]
    ELSE IF call.etime # Undefined THEN call.etime[1]
    ELSE eq.currentTime + 1

(* C6: after EventQueue.add returns, the event is queued at the explicit   *)
(* time argument whenever one is given (0 included), otherwise at          *)
(* event.time whenever it is set (0 included), otherwise at currentTime+1, *)
(* and event.time equals that time.                                        *)
C6_AddTimePrecedence ==
    (IsEQ /\ call.op = "add" /\ ~call.threw) =>
        /\ RequestedTime \in DOMAIN eq.timeQueues
        /\ [id |-> calls, name |-> call.name, time |-> <<RequestedTime>>]
              \in HeldBy(eq.timeQueues[RequestedTime])

----------------------------------------------------------------------------
(* C7: after any sequence of calls on an EventQueue, length is the number  *)
(* of add calls that succeeded minus the number of next calls that         *)
(* returned an event, and isEmpty is true exactly when length is 0.        *)
C7_LengthIsAddsMinusNexts ==
    IsEQ => /\ eq.length = nAdds - nNexts
            /\ EQ_isEmpty(eq) <=> (eq.length = 0)

\* Adds and next calls interleaved, with an event left.
C7_Witness ==
    /\ IsEQ /\ nAdds = 3 /\ nNexts = 2 /\ eq.length = 1
    /\ returned[1].at < returned[2].at

----------------------------------------------------------------------------
(* C8: in every reachable state of an EventQueue, nextTime is unset        *)
(* exactly when length is 0.                                               *)
C8_NextTimeUnsetIffEmpty ==
    IsEQ => ((eq.nextTime = Undefined) <=> (eq.length = 0))

\* A queue drained to empty by a next call: nextTime is unset again.
C8_Witness ==
    /\ IsEQ /\ call.op = "next" /\ call.evt # Undefined
    /\ nNexts = 2 /\ eq.length = 0 /\ eq.nextTime = Undefined

----------------------------------------------------------------------------
(* C9: in every reachable state of a non-empty EventQueue, nextTime is the *)
(* smallest time at which an event is still queued.  Stated of the         *)
(* StrictEventQueue, whose add accepts only times after currentTime.       *)
C9_NextTimeIsSmallestQueuedTime ==
    (IsEQ /\ strict /\ eq.length > 0) =>
        eq.nextTime = <<Min({e.time[1] : e \in Queued})>>

----------------------------------------------------------------------------
C10_WitnessPriorityQueue ==
    /\ IsPQ /\ call.op = "next" /\ call.evt = Undefined
    /\ nNexts = 2 /\ pq.length = 0

----------------------------------------------------------------------------
----------------------------------------------------------------------------
\* The time the add call asks for: the time argument, else event.time.
AskedTime == IF call.time # Undefined THEN call.time ELSE call.etime

(* C12: StrictEventQueue.add raises an error and leaves the queue          *)
(* unchanged whenever the time it is asked to schedule at (the time        *)
(* argument, else event.time) is less than or equal to currentTime, the    *)
(* values 0 and negative numbers included.                                 *)
C12_StrictAddRejectsPastTimes ==
    [][ (IsEQ /\ strict /\ calls' = calls + 1
            /\ AskedTime' # Undefined /\ AskedTime'[1] <= eq.currentTime) =>
          (call'.threw /\ eq' = eq)
      ]_vars

----------------------------------------------------------------------------
(* C13: StrictPriorityQueue.add and StrictEventQueue.add raise "Events     *)
(* must have a name." for an event whose name is missing or empty, and the *)
(* failed call changes no field of the queue.                              *)
C13_StrictAddRejectsNameless ==
    [][ (strict /\ calls' = calls + 1 /\ ~TruthyStr(call'.name)) =>
          /\ call'.threw
          /\ call'.error = NameError
          /\ eq' = eq
          /\ pq' = pq
          /\ nAdds' = nAdds
      ]_vars

\* A nameless event refused by a StrictEventQueue that holds an event and
\* whose clock has moved.
C13_Witness ==
    /\ IsEQ /\ strict /\ call.op = "add" /\ call.name = << >>
    /\ call.threw /\ call.error = NameError
    /\ eq.length = 1 /\ eq.currentTime > 0

\* The same refused by a StrictPriorityQueue that holds two events.
C13_WitnessPriorityQueue ==
    /\ IsPQ /\ strict /\ call.op = "add" /\ call.name = << >>
    /\ call.threw /\ call.error = NameError
    /\ pq.length = 2

----------------------------------------------------------------------------
(* C14: on a StrictPriorityQueue every setPriorities call made after       *)
(* construction, whatever list it is given (the empty list included),      *)
(* raises "Updating priority list not currently supported." and leaves the *)
(* pattern list, the queued events and the length as they were.            *)
C14_StrictSetPrioritiesRejected ==
    [][ (IsPQ /\ strict /\ call'.op = "setPriorities") =>
          /\ call'.threw
          /\ call'.error = UpdateError
          /\ pq'.priorityList = pq.priorityList
          /\ pq'.eventQueues = pq.eventQueues
          /\ pq'.length = pq.length ]_vars

\* A strict queue built with ["a", "b"] that holds two events was asked to
\* take the empty list, and the call raised.
C14_Witness ==
    /\ IsPQ /\ strict
    /\ call.op = "setPriorities" /\ call.list = << >>
    /\ call.threw /\ call.error = UpdateError
    /\ priorities = <<<<"a">>, <<"b">>>>
    /\ pq.length = 2

----------------------------------------------------------------------------
\* The times of the events the EventQueue holds.
QueuedTimes == {e.time[1] : e \in Queued}

\* Every add so far was given a time in the future, as add's contract asks
\* ("The time must be in the future") and as the strict queue checks: no
\* time of the index is at or before currentTime and length counts the
\* events held.
AddsWereInTheFuture ==
    /\ \A t \in DOMAIN eq.timeQueues : t > eq.currentTime
    /\ eq.length = Cardinality(Queued)

C15_WitnessSameTime ==
    /\ IsEQ /\ call.op = "next" /\ call.evt # Undefined
    /\ call.evt[1].time = <<1>>
    /\ QueuedTimes = {1, 2}
    /\ eq.nextTime = <<1>>

----------------------------------------------------------------------------
\* The events held in the index, that is, outside the queue being drained.
Indexed == UNION {HeldBy(eq.timeQueues[t]) : t \in DOMAIN eq.timeQueues}

\* next() is draining a slot: a queue is current.
Draining == eq.currentQueue # Undefined

(* C16, as stated: in every reachable state of a StrictEventQueue the keys *)
(* of the index are the times at which an event not yet returned is        *)
(* queued, the slot next() is draining included.                           *)
C16_KeysAreQueuedTimes ==
    (IsEQ /\ strict) => (DOMAIN eq.timeQueues = QueuedTimes)

(* C16, amended: in every reachable state of an EventQueue a time is a key *)
(* of the index exactly when an event of that time, not yet returned, is   *)
(* queued outside the slot next() is draining.  The slot being drained has *)
(* left the index: on a StrictEventQueue its time is not a key while its   *)
(* remaining events are still queued.                                      *)
C16_KeysAreIndexedTimes ==
    IsEQ =>
       /\ \A t \in DOMAIN eq.timeQueues :
              /\ HeldBy(eq.timeQueues[t]) # {}
              /\ \A e \in HeldBy(eq.timeQueues[t]) : e.time = <<t>>
       /\ \A e \in Indexed : e.time # Undefined /\ e.time[1] \in DOMAIN eq.timeQueues
       /\ (strict /\ Draining) =>
              /\ eq.currentTime \notin DOMAIN eq.timeQueues
              /\ HeldBy(eq.currentQueue[1]) # {}
              /\ \A e \in HeldBy(eq.currentQueue[1]) : e.time = <<eq.currentTime>>

\* A strict queue is draining time 1, with one event of time 1 still to
\* return and one event queued at time 2: the only key is 2.
C16_Witness ==
    /\ IsEQ /\ strict /\ Draining
    /\ eq.currentTime = 1
    /\ Cardinality(HeldBy(eq.currentQueue[1])) = 1
    /\ DOMAIN eq.timeQueues = {2}
    /\ QueuedTimes = {1, 2}

----------------------------------------------------------------------------
\* The events next() has returned.
ReturnedEvents == {returned[i].evt : i \in 1..Len(returned)}

(* C17: every event EventQueue.next() returns was passed before to an add  *)
(* that succeeded, and an add leads to at most one return of its event:    *)
(*  - an event enters the queue only in a successful add call, which adds  *)
(*    the event it was given (the n-th call's event has id n) and no other;*)
(*  - an event next() returns was queued before the call and is not queued *)
(*    after it;                                                            *)
(*  - no event is returned twice, and no returned event is queued.         *)
C17_ReturnedOnceAndOnlyIfAdded ==
    /\ [](IsEQ =>
            /\ \A i, j \in 1..Len(returned) :
                   (returned[i].evt.id = returned[j].evt.id) => (i = j)
            /\ \A e \in ReturnedEvents : \A x \in Queued : x.id # e.id
            /\ \A x \in Queued \cup ReturnedEvents : x.id \in 1..calls)
    /\ [][ IsEQ =>
             /\ (Queued' \ Queued # {}) =>
                    /\ calls' = calls + 1 /\ nAdds' = nAdds + 1 /\ ~call'.threw
                    /\ \E x \in Queued' :
                          /\ Queued' \ Queued = {x}
                          /\ x.id = calls' /\ x.name = call'.name
                    /\ returned' = returned
             /\ (returned' # returned) =>
                    /\ call'.op = "next" /\ call'.evt # Undefined
                    /\ returned' = Append(returned, [evt |-> call'.evt[1],
                                                     at |-> calls])
                    /\ call'.evt[1] \in Queued
                    /\ call'.evt[1] \notin Queued'
                    /\ Queued' \subseteq Queued
           ]_vars

\* Three adds succeeded, next returned two of the events and the third is
\* still queued.
C17_Witness ==
    /\ IsEQ /\ nAdds = 3 /\ Len(returned) = 2
    /\ call.op = "next" /\ call.evt # Undefined
    /\ Cardinality(Queued) = 1

----------------------------------------------------------------------------
(* C18: a lenient queue and a strict queue given the same add and next     *)
(* calls, none of which makes the strict queue raise: after every call the *)
(* lenient EventQueue has returned the same event (or nothing) as the      *)
(* StrictEventQueue and has the same length, nextTime and currentTime, and *)
(* a next call ends on the one exactly when it ends on the other; the      *)
(* lenient PriorityQueue has returned the same event as the                *)
(* StrictPriorityQueue and has the same length.                            *)
C18_LenientMatchesStrict ==
    /\ twin.evt = call.evt
    /\ IsEQ =>
          /\ twin.eq.length = eq.length
          /\ twin.eq.nextTime = eq.nextTime
          /\ twin.eq.currentTime = eq.currentTime
          /\ EQ_nextDiverges(twin.eq) = EQ_nextDiverges(eq)
    /\ IsPQ => twin.pq.length = pq.length

\* Both event queues were given an event at time 2 and an event with no
\* time, and both have returned the two of them.
C18_Witness ==
    /\ IsEQ /\ strict
    /\ call.op = "next" /\ call.evt # Undefined /\ twin.evt = call.evt
    /\ Len(returned) = 2
    /\ returned[1].evt.time = <<1>> /\ returned[2].evt.time = <<2>>
    /\ twin.eq.currentTime = 2

\* Both priority queues, built with ["^a.*", "b"], were given three events
\* and have returned the first of them in priority order.
C18_WitnessPriorityQueue ==
    /\ IsPQ /\ strict
    /\ priorities = <<<<"^", "a", ".*">>, <<"b">>>>
    /\ call.op = "next" /\ call.evt # Undefined /\ twin.evt = call.evt
    /\ nAdds = 3 /\ twin.pq.length = 2

----------------------------------------------------------------------------
\* The subject is an entity description and its entities.
IsEntity == subject = "Entity"

\* The entity the last call was dispatched to has a handler for it.
Handled ==
    /\ dispatched.op = "handle"
    /\ dispatched.name \in DOMAIN entities[dispatched.to].handlers[dispatched.kind]

(* C19: with entities made from the same EntityDescription, dispatching an *)
(* event or an entity-created, entity-destroyed or entity-updated          *)
(* notification to one of them, whose handler writes prop of its receiver, *)
(* sets prop on the entity dispatched to; every other entity and the       *)
(* description are as they were, in properties and in handlers.            *)
C19_HandlerWritesOwnEntity ==
    [][ (IsEntity /\ dispatched'.op = "handle") =>
          /\ ed' = ed
          /\ Len(entities') = Len(entities)
          /\ \A j \in 1..Len(entities) :
                (j # dispatched'.to) => (entities'[j] = entities[j])
          /\ Handled' => /\ ~dispatched'.threw
                         /\ entities'[dispatched'.to].props["prop"]
                               = dispatched'.value ]_vars

\* The second of two entities made with prop 1 handled an event that
\* carries 3: its prop is 3, the first entity's and the description's are 1.
C19_Witness ==
    /\ IsEntity /\ Len(entities) = 2
    /\ Handled /\ dispatched.to = 2 /\ dispatched.kind = "event"
    /\ dispatched.value = 3
    /\ entities[2].props["prop"] = 3
    /\ entities[1].props["prop"] = 1
    /\ ed.props["prop"] = 1

\* The same for an entity-updated notification handled by the first entity.
C19_WitnessNotification ==
    /\ IsEntity /\ Len(entities) = 2
    /\ Handled /\ dispatched.to = 1 /\ dispatched.kind = "entityUpdated"
    /\ dispatched.value = 3
    /\ entities[1].props["prop"] = 3
    /\ entities[2].props["prop"] = 1
    /\ ed.props["prop"] = 1

----------------------------------------------------------------------------
(* C20: every entity made by EntityDescription.entity() has a guid that     *)
(* differs from the guid of the description and from the guid of every     *)
(* other entity, whatever properties were passed to entity().              *)
C20_GuidsDiffer ==
    IsEntity =>
       /\ \A i \in 1..Len(entities) : entities[i].props["guid"] # ed.props["guid"]
       /\ \A i, j \in 1..Len(entities) :
              (i # j) => (entities[i].props["guid"] # entities[j].props["guid"])

\* A second entity was just made with the guid of the first one passed as
\* a property.
C20_Witness ==
    /\ IsEntity /\ Len(entities) = 2
    /\ dispatched.op = "entity" /\ dispatched.to = 2
    /\ "guid" \in DOMAIN dispatched.properties
    /\ dispatched.properties["guid"] = uuidv4(1)

----------------------------------------------------------------------------
\* The properties of an object other than its guid.
Bag(props) == DOMAIN props \ {"guid"}

(* C21: the properties of an entity just made by entity(properties), the   *)
(* guid apart, are the defaults of the description overridden key by key   *)
(* by the properties passed: a key that was passed has the value passed, a *)
(* key that was not passed has the default of the description, a key that  *)
(* only the properties passed have is added, and the description is as it  *)
(* was before the call.                                                    *)
C21_DefaultsThenOverrides ==
    [][ (IsEntity /\ dispatched'.op = "entity") =>
          LET made == entities'[dispatched'.to].props
              passed == dispatched'.properties
          IN /\ Bag(made) = Bag(ed.props) \cup Bag(passed)
             /\ \A k \in Bag(passed) : made[k] = passed[k]
             /\ \A k \in Bag(ed.props) \ Bag(passed) : made[k] = ed.props[k]
             /\ ed' = ed ]_vars

\* An entity was just made with {prop: 3, prop3: "xxx"} from a description
\* whose defaults are prop 1 and prop2 "two".
C21_Witness ==
    /\ IsEntity /\ dispatched.op = "entity"
    /\ dispatched.properties = [prop |-> 3, prop3 |-> "xxx"]
    /\ ed.props["prop"] = 1 /\ ed.props["prop2"] = "two"
    /\ entities[1].props["prop"] = 3
    /\ entities[1].props["prop2"] = "two"
    /\ entities[1].props["prop3"] = "xxx"

----------------------------------------------------------------------------
\* What a dispatch to the entity self does, seen from the entities: the
\* calls made, whether one threw, and the entities afterwards.
Outcome(description, made, self, kind, name, value) ==
    LET w == Entity_handle(World(description, made), self, kind, name, value)
    IN <<w.invoked, w.threw, w.entities>>

(* C22: a handler registered on a description, or a default property of a  *)
(* description changed, after an entity was made changes neither the       *)
(* properties of that entity nor the handlers it invokes: every dispatch   *)
(* to the entity calls the same handlers with the same effect on the       *)
(* entities as it would have before.                                       *)
C22_EntityKeepsItsSnapshot ==
    [][ (IsEntity /\ dispatched'.op \in {"on", "set"}) =>
          /\ entities' = entities
          /\ \A self \in 1..Len(entities), kind \in Kinds, value \in Values :
               \A name \in DispatchNames(kind) :
                 Outcome(ed', entities', self, kind, name, value)
                   = Outcome(ed, entities, self, kind, name, value) ]_vars

\* A handler for events was just registered on the description although its
\* entity has none, and the default of prop is no longer the one the entity
\* was made with.
C22_Witness ==
    /\ IsEntity /\ dispatched.op = "on" /\ ~dispatched.threw
    /\ dispatched.kind = "event"
    /\ Len(entities) = 1
    /\ "event" \in DOMAIN ed.handlers["event"]
    /\ "event" \notin DOMAIN entities[1].handlers["event"]
    /\ ed.props["prop"] = 3 /\ entities[1].props["prop"] = 1

----------------------------------------------------------------------------
\* The calls a loop over handlers makes when none of them throws: one call
\* of each, in the order of the list, with the payload.
EachOnce(handlers, value) ==
    [i \in 1..Len(handlers) |-> Called(handlers[i], value)]

(* C23: handleEvent(event) on an entity calls each handler the entity got  *)
(* from its description under the name of the event exactly once, in the   *)
(* order of registration, with the event; when there is no handler under   *)
(* that name it calls nothing, raises nothing and changes neither the      *)
(* description nor an entity.  (A call that raises is C26.)                *)
C23_HandleEventCallsEachOnce ==
    [][ (IsEntity /\ dispatched'.op = "handle" /\ dispatched'.kind = "event") =>
          LET dict == entities[dispatched'.to].handlers["event"]
              name == dispatched'.name
          IN /\ (name \in DOMAIN dict /\ ~dispatched'.threw) =>
                  dispatched'.invoked = EachOnce(dict[name], dispatched'.value)
             /\ name \notin DOMAIN dict =>
                  /\ dispatched'.invoked = << >>
                  /\ ~dispatched'.threw
                  /\ ed' = ed /\ entities' = entities ]_vars

\* An event was just handled by an entity with two handlers for it: g, the
\* first registered, was called and then f, both on the entity and with the
\* event.
C23_Witness ==
    /\ IsEntity /\ dispatched.op = "handle" /\ dispatched.kind = "event"
    /\ ~dispatched.threw /\ dispatched.to = 1 /\ dispatched.name = "event"
    /\ "event" \in DOMAIN entities[1].handlers["event"]
    /\ Len(entities[1].handlers["event"]["event"]) = 2
    /\ dispatched.invoked = << [id |-> "g", this |-> <<1>>, value |-> 3],
                               [id |-> "f", this |-> <<1>>, value |-> 3] >>

----------------------------------------------------------------------------
\* The three kinds of notification about another entity.
Notifications == Kinds \ {"event"}

(* C24: handleEntityCreated, handleEntityDestroyed and handleEntityUpdated *)
(* call only handlers of the registry of their own kind under the name of  *)
(* the other entity, in the order of registration: the i-th call made is   *)
(* the i-th handler of that list, all of them are called when none throws, *)
(* and when the registry of the kind has no handler under the name nothing *)
(* is called, whatever the other registries hold under it.                 *)
C24_NotificationsUseOwnRegistry ==
    [][ (IsEntity /\ dispatched'.op = "handle"
                  /\ dispatched'.kind \in Notifications) =>
          LET dict == entities[dispatched'.to].handlers[dispatched'.kind]
              name == dispatched'.name
              own == IF name \in DOMAIN dict THEN dict[name] ELSE << >>
              made == dispatched'.invoked
          IN /\ Len(made) <= Len(own)
             /\ \A i \in 1..Len(made) :
                  made[i] = Called(own[i], dispatched'.value)
             /\ ~dispatched'.threw => Len(made) = Len(own) ]_vars

\* An entity with f for destroyed and g for created "other_entity" was just
\* told that an "other_entity" was created: g alone was called.
C24_Witness ==
    /\ IsEntity /\ dispatched.op = "handle" /\ dispatched.to = 1
    /\ dispatched.kind = "entityCreated" /\ dispatched.name = "other_entity"
    /\ "other_entity" \in DOMAIN entities[1].handlers["entityDestroyed"]
    /\ entities[1].handlers["entityDestroyed"]["other_entity"][1].id = "f"
    /\ dispatched.invoked = << [id |-> "g", this |-> <<1>>, value |-> 3] >>

----------------------------------------------------------------------------
(* C26: when handleEvent, handleEntityCreated, handleEntityDestroyed or    *)
(* handleEntityUpdated is called on an entity and a handler of the list it *)
(* loops over throws, the exception leaves the operation (the caller sees  *)
(* it); the four registries of every entity are after the call what they   *)
(* were before it, whether it threw or not.                                *)
C26_DirectDispatchPropagates ==
    [][ (IsEntity /\ dispatched'.op = "handle") =>
          LET dict == entities[dispatched'.to].handlers[dispatched'.kind]
              name == dispatched'.name
              own == IF name \in DOMAIN dict THEN dict[name] ELSE << >>
          IN /\ (\E i \in 1..Len(own) : own[i].throws) => dispatched'.threw
             /\ Len(entities') = Len(entities)
             /\ \A i \in 1..Len(entities) :
                  entities'[i].handlers = entities[i].handlers ]_vars

\* An entity with the handlers f and t for events just handled one: f was
\* called and assigned prop, t was called and threw, and the caller got the
\* exception; the registry still holds both.
C26_Witness ==
    /\ IsEntity /\ dispatched.op = "handle" /\ dispatched.to = 1
    /\ dispatched.kind = "event" /\ dispatched.threw
    /\ Len(dispatched.invoked) = 2
    /\ dispatched.invoked[1].id = "f" /\ dispatched.invoked[2].id = "t"
    /\ entities[1].props["prop"] = 3
    /\ Len(entities[1].handlers["event"]["event"]) = 2

----------------------------------------------------------------------------
\* The list a registry holds under a name: empty when the name is not a key.
Registered(dict, name) == IF name \in DOMAIN dict THEN dict[name] ELSE << >>

(* C27: onEvent, onEntityCreated, onEntityDestroyed and onEntityUpdated,   *)
(* called with a name, put the handler at the end of the list their own    *)
(* registry holds under that name: the handlers registered before stay, in *)
(* their order, also when the same handler is among them; the lists under  *)
(* other names and the other three registries are unchanged.               *)
C27_RegistrationAppends ==
    [][ (IsEntity /\ dispatched'.op = "on" /\ ~dispatched'.threw) =>
          LET kind == dispatched'.kind
              name == dispatched'.name
              before == Registered(ed.handlers[kind], name)
              after == Registered(ed'.handlers[kind], name)
          IN /\ Len(after) = Len(before) + 1
             /\ SubSeq(after, 1, Len(before)) = before
             /\ after[Len(after)].id = dispatched'.handler
             /\ DOMAIN ed'.handlers[kind] = DOMAIN ed.handlers[kind] \cup {name}
             /\ \A n \in DOMAIN ed.handlers[kind] \ {name} :
                  ed'.handlers[kind][n] = ed.handlers[kind][n]
             /\ \A k \in Kinds \ {kind} : ed'.handlers[k] = ed.handlers[k] ]_vars

\* f was just registered for "event" a second time on a description that
\* holds nothing else: the list is f, f.
C27_Witness ==
    /\ IsEntity /\ dispatched.op = "on" /\ ~dispatched.threw
    /\ dispatched.kind = "event" /\ dispatched.name = "event"
    /\ dispatched.handler = "f"
    /\ Len(Registered(ed.handlers["event"], "event")) = 2
    /\ Registered(ed.handlers["event"], "event")[1].id = "f"
    /\ Registered(ed.handlers["event"], "event")[2].id = "f"

----------------------------------------------------------------------------
(* C28: onEvent, onEntityCreated, onEntityDestroyed and onEntityUpdated    *)
(* called with an empty or missing name raise an error, and the call       *)
(* leaves the four registries of the description, and everything else of   *)
(* the description and its entities, as they were.                         *)
C28_NamelessRegistrationRaises ==
    [][ (IsEntity /\ dispatched'.op = "on" /\ dispatched'.name = "") =>
          /\ dispatched'.threw
          /\ ed' = ed
          /\ entities' = entities ]_vars

\* A registration for updates without a name was just refused on a
\* description that holds one handler.
C28_Witness ==
    /\ IsEntity /\ dispatched.op = "on" /\ dispatched.name = ""
    /\ dispatched.kind = "entityUpdated" /\ dispatched.threw
    /\ Count(ed, Kinds) = 1
    /\ ed.handlers["entityUpdated"] = << >>

----------------------------------------------------------------------------
(* The specification of an EntitySimulation and an EventHandlerList: the   *)
(* entities are made from the description, added to and destroyed in the   *)
(* simulation, and their handlers are put in the list and invoked.         *)

\* The functions put in the list: one that assigns prop, one that throws.
ListHandlers == {Handler("f", "prop", FALSE), Handler("t", "prop", TRUE)}

\* A guid no entity has.
UnknownGuid == "unknown"

\* The handlers of a list, entity by entity.
RECURSIVE AllHandlers(_)
AllHandlers(list) ==
    IF list = << >> THEN << >>
    ELSE Head(list).handlers \o AllHandlers(Tail(list))

\* sim.addEntity(entity)
AddEntity(ref) ==
    /\ subject = "Entity"
    /\ sim' = SIM_addEntity(sim, entities[ref], ref)
    /\ added' = added \cup {ref}
    /\ dispatched' = [NoDispatch EXCEPT !.op = "addEntity", !.to = ref]
    /\ UNCHANGED <<subject, strict, queueVars, loggingVars, ed, entities,
                   uuids, handlerList, evts>>

\* sim.destroyEntity(entity)
DestroyEntity(ref) ==
    /\ subject = "Entity"
    /\ sim' = SIM_destroyEntity(sim, AnEntity(entities[ref]))
    /\ added' = added \ {ref}
    /\ dispatched' = [NoDispatch EXCEPT !.op = "destroyEntity", !.to = ref,
                                        !.kind = "entity"]
    /\ UNCHANGED <<subject, strict, queueVars, loggingVars, ed, entities,
                   uuids, handlerList, evts>>

\* sim.destroyEntity(entity.guid)
DestroyGuid(ref) ==
    /\ subject = "Entity"
    /\ sim' = SIM_destroyEntity(sim, AGuid(entities[ref].props["guid"]))
    /\ added' = added \ {ref}
    /\ dispatched' = [NoDispatch EXCEPT !.op = "destroyEntity", !.to = ref,
                                        !.kind = "guid"]
    /\ UNCHANGED <<subject, strict, queueVars, loggingVars, ed, entities,
                   uuids, handlerList, evts>>

\* sim.destroyEntity("unknown")
DestroyUnknown ==
    /\ subject = "Entity"
    /\ sim' = SIM_destroyEntity(sim, AGuid(UnknownGuid))
    /\ added' = added
    /\ dispatched' = [NoDispatch EXCEPT !.op = "destroyEntity",
                                        !.kind = "unknown"]
    /\ UNCHANGED <<subject, strict, queueVars, loggingVars, ed, entities,
                   uuids, handlerList, evts>>

\* list.addHandler(entity.guid, h.bind(entity))
AddHandler(ref, h) ==
    /\ subject = "Entity"
    /\ Len(AllHandlers(handlerList)) < MaxHandlers
    /\ handlerList' = EHL_addHandler(handlerList, entities[ref].props["guid"],
                                     Bind(h, ref))
    /\ dispatched' = [NoDispatch EXCEPT !.op = "addHandler", !.to = ref,
                                        !.handler = h.id]
    /\ UNCHANGED <<subject, strict, queueVars, loggingVars, ed, entities,
                   uuids, sim, added, evts>>

\* list.removeHandlers(entity.guid)
RemoveHandlers(ref) ==
    /\ subject = "Entity"
    /\ handlerList' = EHL_removeHandlers(handlerList,
                                         entities[ref].props["guid"])
    /\ dispatched' = [NoDispatch EXCEPT !.op = "removeHandlers", !.to = ref]
    /\ UNCHANGED <<subject, strict, queueVars, loggingVars, ed, entities,
                   uuids, sim, added, evts>>

\* list.invoke(event)
InvokeList(value) ==
    /\ subject = "Entity"
    /\ LET w == EHL_invoke(handlerList, value, World(ed, entities))
       IN /\ ed' = w.ed
          /\ entities' = w.entities
          /\ dispatched' = [NoDispatch EXCEPT !.op = "invoke",
                                              !.value = value,
                                              !.threw = w.threw,
                                              !.invoked = w.invoked]
    /\ UNCHANGED <<subject, strict, queueVars, loggingVars, uuids,
                   simulationVars>>

NextSimulation ==
    \/ CreateEntity(<< >>)
    \/ \E ref \in 1..Len(entities) : AddEntity(ref)
    \/ \E ref \in 1..Len(entities) : DestroyEntity(ref)
    \/ \E ref \in 1..Len(entities) : DestroyGuid(ref)
    \/ DestroyUnknown
    \/ \E ref \in 1..Len(entities), h \in ListHandlers : AddHandler(ref, h)
    \/ \E ref \in 1..Len(entities) : RemoveHandlers(ref)
    \/ \E value \in Values : InvokeList(value)

SpecSimulation == InitEntities /\ [][NextSimulation]_vars

----------------------------------------------------------------------------
(* C25: EventHandlerList.invoke(event) calls every handler of the list     *)
(* exactly once, entity by entity and in the order they were added, also   *)
(* the handlers that come after one that throws, of the same entity or of  *)
(* another; the exception is caught and invoke itself does not throw.      *)
C25_InvokeIsolatesFailures ==
    [][ (IsEntity /\ dispatched'.op = "invoke") =>
          /\ ~dispatched'.threw
          /\ dispatched'.invoked
               = EachOnce(AllHandlers(handlerList), dispatched'.value)
          /\ handlerList' = handlerList ]_vars

\* A list that holds t, which throws, for one entity and f for another was
\* just invoked: t was called, and f after it, which assigned prop.
C25_Witness ==
    /\ IsEntity /\ dispatched.op = "invoke" /\ ~dispatched.threw
    /\ Len(handlerList) = 2
    /\ Len(dispatched.invoked) = 2
    /\ dispatched.invoked[1].id = "t" /\ dispatched.invoked[1].this = <<1>>
    /\ dispatched.invoked[2].id = "f" /\ dispatched.invoked[2].this = <<2>>
    /\ entities[2].props["prop"] = 3

(* C29: numberEntities() of a simulation is the number of entities added   *)
(* and not destroyed since they were last added; destroyEntity called with *)
(* an entity does what it does called with the guid of that entity; adding *)
(* an entity that is in the simulation does not change the number; and     *)
(* destroying a guid that is not in the simulation changes nothing.        *)
C29_NumberEntities ==
    IsEntity =>
      /\ SIM_numberEntities(sim) = Cardinality(added)
      /\ \A ref \in 1..Len(entities) :
           SIM_destroyEntity(sim, AnEntity(entities[ref]))
             = SIM_destroyEntity(sim, AGuid(entities[ref].props["guid"]))
      /\ \A ref \in added :
           SIM_numberEntities(SIM_addEntity(sim, entities[ref], ref))
             = SIM_numberEntities(sim)
      /\ SIM_destroyEntity(sim, AGuid(UnknownGuid)) = sim

\* Of two entities added, the first was just destroyed, passed as an
\* entity: one is left.
C29_Witness ==
    /\ IsEntity /\ dispatched.op = "destroyEntity"
    /\ dispatched.kind = "entity" /\ dispatched.to = 1
    /\ Len(entities) = 2 /\ added = {2}
    /\ SIM_numberEntities(sim) = 1

----------------------------------------------------------------------------
(* The specification of a StringLogger: topics are added and removed and   *)
(* messages are logged on topics.                                          *)

\* The topics of the calls, the topic lists given to the constructor and
\* the messages logged.
Topics == {"1", "2", "3"}
TopicLists == {<< >>, <<"1">>}
Messages == {<<"a">>, <<"a", "b">>}

IsLogger == subject = "Logger"

\* new StringLogger(topics)
InitLogger ==
    /\ subject = "Logger"
    /\ strict = FALSE
    /\ priorities = << >>
    /\ eq = EQ_new(<< >>)
    /\ pq = PQ_new(<< >>)
    /\ call = NoCall
    /\ returned = << >>
    /\ nAdds = 0
    /\ nNexts = 0
    /\ calls = 0
    /\ hung = FALSE
    /\ twin = NoTwin
    /\ ed = ED_new(EntityName, << >>, uuidv4(0))
    /\ entities = << >>
    /\ uuids = 1
    /\ dispatched = NoDispatch
    /\ sim = SIM_new
    /\ handlerList = EHL_new
    /\ added = {}
    /\ evts = << >>
    /\ \E topics \in TopicLists :
          /\ logger = StringLogger_new(topics)
          /\ enabled = {topics[i] : i \in 1..Len(topics)}
    /\ logged = NoLog

\* logger.addTopic(topic)
AddTopic(topic) ==
    /\ subject = "Logger"
    /\ logger' = Logger_addTopic(logger, topic)
    /\ enabled' = enabled \cup {topic}
    /\ logged' = [NoLog EXCEPT !.op = "addTopic", !.topic = topic]
    /\ UNCHANGED <<subject, strict, queueVars, entityVars, simulationVars>>

\* logger.removeTopic(topic)
RemoveTopic(topic) ==
    /\ subject = "Logger"
    /\ logger' = Logger_removeTopic(logger, topic)
    /\ enabled' = enabled \ {topic}
    /\ logged' = [NoLog EXCEPT !.op = "removeTopic", !.topic = topic]
    /\ UNCHANGED <<subject, strict, queueVars, entityVars, simulationVars>>

\* logger.log(topic, message)
Log(topic, message) ==
    /\ subject = "Logger"
    /\ Len(logger.buffer) < MaxLogs
    /\ logger' = Logger_log(logger, topic, message)
    /\ logged' = [NoLog EXCEPT !.op = "log", !.topic = topic,
                               !.message = message]
    /\ UNCHANGED <<subject, strict, queueVars, entityVars, simulationVars,
                   enabled>>

\* The topics asked about: those of the calls and the name of a property
\* of a Set.
AskedTopics == Topics \cup {"size"}

\* The values looked for in the buffer.
SearchValues == {<<"a">>, <<"b">>, <<"a", "b">>}

\* logger.isLogging(topic)
IsLogging(topic) ==
    /\ subject = "Logger"
    /\ logged' = [NoLog EXCEPT !.op = "isLogging", !.topic = topic,
                               !.result = <<Logger_isLogging(logger, topic)>>]
    /\ UNCHANGED <<subject, strict, queueVars, entityVars, simulationVars,
                   logger, enabled>>

\* logger.clear()
Clear ==
    /\ subject = "Logger"
    /\ logger' = StringLogger_clear(logger)
    /\ logged' = [NoLog EXCEPT !.op = "clear"]
    /\ UNCHANGED <<subject, strict, queueVars, entityVars, simulationVars,
                   enabled>>

\* logger.contains(value, checkSubstr)
Contains(value, checkSubstr) ==
    /\ subject = "Logger"
    /\ logged' = [NoLog EXCEPT !.op = "contains", !.message = value,
                               !.checkSubstr = checkSubstr,
                               !.result = <<StringLogger_contains(
                                              logger.buffer, value,
                                              checkSubstr)>>]
    /\ UNCHANGED <<subject, strict, queueVars, entityVars, simulationVars,
                   logger, enabled>>

NextLogger ==
    \/ \E topic \in Topics : AddTopic(topic)
    \/ \E topic \in Topics : RemoveTopic(topic)
    \/ \E topic \in Topics, message \in Messages : Log(topic, message)
    \/ \E topic \in AskedTopics : IsLogging(topic)
    \/ Clear
    \/ \E value \in SearchValues, checkSubstr \in BOOLEAN :
          Contains(value, checkSubstr)

SpecLogger == InitLogger /\ [][NextLogger]_vars

----------------------------------------------------------------------------
(* C30: log(topic, message) writes the message, once and after what was    *)
(* written before, exactly when the topic is enabled, that is, was given   *)
(* to the constructor or added and not removed since; on any other topic   *)
(* it writes nothing; it raises nothing either way.  removeTopic of a      *)
(* topic that is not enabled changes nothing and raises nothing.           *)
C30_LogWritesEnabledTopics ==
    [][ IsLogger =>
          /\ logged'.op = "log" =>
               /\ ~logged'.threw
               /\ logger'.buffer = IF logged'.topic \in enabled
                                   THEN Append(logger.buffer, logged'.message)
                                   ELSE logger.buffer
          /\ (logged'.op = "removeTopic" /\ logged'.topic \notin enabled) =>
               /\ ~logged'.threw
               /\ logger' = logger ]_vars

\* A message was just logged on "1", which is no longer enabled, after one
\* was written on it, and "3" was added meanwhile: nothing more was written.
C30_Witness ==
    /\ IsLogger /\ logged.op = "log" /\ logged.topic = "1"
    /\ enabled = {"3"}
    /\ logger.buffer = << <<"a">> >>
    /\ logged.message = <<"a", "b">>

----------------------------------------------------------------------------
(* C31: isLogging(topic) returns true exactly when the topic is enabled on *)
(* the logger, which is exactly when log(topic, message) would write the   *)
(* message.                                                                *)
C31_IsLoggingTellsEnabled ==
    (IsLogger /\ logged.op = "isLogging") =>
      /\ logged.result = <<logged.topic \in enabled>>
      /\ \A message \in Messages :
           logged.result
             = <<Logger_log(logger, logged.topic, message) # logger>>

(* C32: contains(value, checkSubstr) returns true exactly when a message   *)
(* of the buffer has value inside it (checkSubstr true) or a message of    *)
(* the buffer is value (checkSubstr false); after clear() the buffer is    *)
(* empty, contains returns false for every value, and the topics enabled   *)
(* are those enabled before.                                               *)
C32_ContainsFindsMessages ==
    IsLogger =>
      /\ logged.op = "contains" =>
           logged.result =
             << IF logged.checkSubstr
                THEN \E i \in 1..Len(logger.buffer) :
                        Includes(logger.buffer[i], logged.message)
                ELSE \E i \in 1..Len(logger.buffer) :
                        logger.buffer[i] = logged.message >>
      /\ logged.op = "clear" =>
           /\ logger.buffer = << >>
           /\ logger.topics = enabled
           /\ \A value \in SearchValues, checkSubstr \in BOOLEAN :
                ~StringLogger_contains(logger.buffer, value, checkSubstr)

----------------------------------------------------------------------------
(* C33: after any construction, add, next and setPriorities calls on a     *)
(* PriorityQueue, lenient or strict, length is the number of events the    *)
(* buckets hold, and a next() called while length is greater than 0        *)
(* returns an event.                                                       *)
C33_LengthCountsHeldEvents ==
    IsPQ =>
      /\ pq.length = Cardinality(HeldBy(pq))
      /\ pq.length > 0 => PQ_next(pq).evt # Undefined

----------------------------------------------------------------------------
(* C34: when next() of an EventQueue returns an event, currentTime after   *)
(* the call is the time of that event; and when no queue was current       *)
(* before the call, that time is the smallest time of the index greater    *)
(* than the currentTime before it: ticks without events are passed over    *)
(* and no tick with events is.                                             *)
C34_NextMovesToReturnedTime ==
    [][ (IsEQ /\ call'.op = "next" /\ call'.evt # Undefined /\ ~hung') =>
          /\ eq'.currentTime = call'.evt[1].time[1]
          /\ eq.currentQueue = Undefined =>
               LET later == {t \in DOMAIN eq.timeQueues : t > eq.currentTime}
               IN /\ later # {}
                  /\ eq'.currentTime = Min(later) ]_vars

\* The first next() of a queue that holds an event at time 2 and nothing at
\* time 1 returned it: tick 1 was passed over and the clock is at 2.
C34_Witness ==
    /\ IsEQ /\ call.op = "next" /\ call.evt # Undefined /\ ~hung
    /\ nNexts = 1 /\ eq.currentTime = 2
    /\ call.evt[1].time = <<2>>
    /\ eq.length = 0

----------------------------------------------------------------------------
(* The specification of a StrictEventQueue that is drained: add calls are  *)
(* made while the bound allows, and next() is called again and again.      *)

InitDrain == Init /\ subject = "EventQueue" /\ strict

\* The times the add calls of a drained queue are given: none, 1 and the
\* largest.
DrainTimes == {Undefined, <<1>>, <<MaxTime>>}

NextDrain ==
    \/ \E name \in EQNames, time \in DrainTimes : Add(name, time, Undefined)
    \/ AddNameless(Undefined)
    \/ NextReturns

SpecDrain == InitDrain /\ [][NextDrain]_vars /\ WF_vars(NextReturns)

\* The number of times next() returned the event of the i-th add call.
TimesReturned(i) ==
    Cardinality({k \in 1..Len(returned) : returned[k].evt.id = i})

\* The event of the i-th add call is in the queue.
IsQueued(i) == \E x \in Queued : x.id = i

(* C35: on a StrictEventQueue every next() call terminates, and one made   *)
(* while length is greater than 0 returns an event and takes 1 from        *)
(* length, so that length calls empty the queue; every event an add        *)
(* accepted is either still queued or was returned, once; and when next()  *)
(* is called again and again the queue becomes empty, so that every event  *)
(* accepted is eventually returned.                                        *)
C35_StrictQueueDrains ==
    /\ [](/\ ~hung /\ ~EQ_nextDiverges(eq)
          /\ eq.length > 0 =>
                /\ EQ_next(eq).evt # Undefined
                /\ EQ_next(eq).q.length = eq.length - 1
          /\ eq.length = Cardinality(Queued)
          /\ nAdds = Cardinality(Queued) + Len(returned)
          /\ \A i \in 1..MaxAdds :
                /\ TimesReturned(i) <= 1
                /\ ~(IsQueued(i) /\ TimesReturned(i) = 1))
    /\ []<>(eq.length = 0)

\* Three events were accepted, for the times 1, 2 and 1, and three next()
\* calls returned them all: the queue is empty.
C35_Witness ==
    /\ IsEQ /\ strict /\ nAdds = 3 /\ nNexts = 3 /\ eq.length = 0
    /\ \A i \in 1..3 : TimesReturned(i) = 1
    /\ returned[1].evt.time = <<1>> /\ returned[1].evt.id = 1
    /\ returned[2].evt.time = <<1>> /\ returned[2].evt.id = 3
    /\ returned[3].evt.time = <<2>> /\ returned[3].evt.id = 2
    /\ returned[1].at = 3

(* C36: every next() call on a lenient EventQueue terminates, and one made *)
(* while length is greater than 0 returns an event, also after an add for  *)
(* a time that is not after currentTime.                                   *)
C36_LenientNextTerminates ==
    (IsEQ /\ ~strict) =>
      /\ ~hung
      /\ ~EQ_nextDiverges(eq)
      /\ eq.length > 0 => EQ_next(eq).evt # Undefined

----------------------------------------------------------------------------
(* C37: in every state of a StrictEventQueue, every queued event has a     *)
(* time that is an integer, at least 1 and at least currentTime; every     *)
(* time of the index is greater than currentTime; and nextTime, when set,  *)
(* is at least currentTime and is not 0.                                   *)
C37_StrictTimesAreAhead ==
    (IsEQ /\ strict) =>
      /\ \A x \in Queued :
           /\ x.time # Undefined
           /\ x.time[1] \in Int
           /\ x.time[1] >= 1
           /\ x.time[1] >= eq.currentTime
      /\ \A t \in DOMAIN eq.timeQueues : t > eq.currentTime
      /\ eq.nextTime # Undefined =>
           /\ eq.nextTime[1] >= eq.currentTime
           /\ eq.nextTime[1] # 0

\* A strict queue at time 1 that is still draining the queue of time 1 and
\* holds an event for time 2, with nextTime 1.
C37_Witness ==
    /\ IsEQ /\ strict /\ eq.currentTime = 1
    /\ eq.currentQueue # Undefined
    /\ DOMAIN eq.timeQueues = {2}
    /\ eq.nextTime = <<1>>
    /\ \E x \in Queued : x.time = <<1>>
    /\ call.op = "next" /\ call.evt # Undefined

----------------------------------------------------------------------------
\* The calls an invoke of the list would make on the handlers of the entity
\* ref, in order.
CallsFor(list, ref, value) ==
    SelectSeq(EHL_invoke(list, value, World(ed, entities)).invoked,
              LAMBDA c : c.this = <<ref>>)

\* The handlers the list holds under a guid.
HandlersOf(list, guid) ==
    IF \E i \in 1..Len(list) : list[i].guid = guid
    THEN list[CHOOSE i \in 1..Len(list) : list[i].guid = guid].handlers
    ELSE << >>

(* C38: after removeHandlers(guid) an invoke of the list calls no handler  *)
(* that was added for that guid, until one is added for it again, and      *)
(* calls the handlers of every other entity as before; addHandler puts the *)
(* handler after those the entity has; and every invoke calls, for each    *)
(* entity, the handlers the list holds for it, each once and in the order  *)
(* they were added.                                                        *)
C38_RemovedHandlersAreNotInvoked ==
    [][ IsEntity =>
          \A value \in Values :
            /\ dispatched'.op = "removeHandlers" =>
                 /\ CallsFor(handlerList', dispatched'.to, value) = << >>
                 /\ \A ref \in 1..Len(entities) \ {dispatched'.to} :
                      CallsFor(handlerList', ref, value)
                        = CallsFor(handlerList, ref, value)
            /\ dispatched'.op = "addHandler" =>
                 /\ Len(CallsFor(handlerList', dispatched'.to, value))
                      = Len(CallsFor(handlerList, dispatched'.to, value)) + 1
                 /\ \A ref \in 1..Len(entities) :
                      SubSeq(CallsFor(handlerList', ref, value), 1,
                             Len(CallsFor(handlerList, ref, value)))
                        = CallsFor(handlerList, ref, value)
                 /\ \A ref \in 1..Len(entities) \ {dispatched'.to} :
                      Len(CallsFor(handlerList', ref, value))
                        = Len(CallsFor(handlerList, ref, value))
            /\ (dispatched'.op = "invoke" /\ dispatched'.value = value) =>
                 \A ref \in 1..Len(entities) :
                   SelectSeq(dispatched'.invoked, LAMBDA c : c.this = <<ref>>)
                     = EachOnce(HandlersOf(handlerList,
                                           entities[ref].props["guid"]),
                                value) ]_vars

\* The handlers of the first of two entities were just removed from a list
\* that still holds one handler, for the second.
C38_Witness ==
    /\ IsEntity /\ dispatched.op = "removeHandlers" /\ dispatched.to = 1
    /\ Len(entities) = 2
    /\ Len(handlerList) = 1
    /\ handlerList[1].guid = entities[2].props["guid"]
    /\ Len(handlerList[1].handlers) = 1

----------------------------------------------------------------------------
(* Events (events.ts) *)

\* new Event(name, properties): name, guid and time are set, then the
\* properties are assigned over them.  The fields that can be undefined
\* (time, state) hold << >> or <<value>>.
Event_new(name, properties, guid) ==
    ObjectAssign([name |-> name, guid |-> guid, time |-> Undefined],
                 properties)

\* The possible simulation states.
SimulationState ==
    [paused |-> "paused", resumed |-> "resumed",
     shutting_down |-> "shutting_down", starting |-> "starting"]

SIMULATION_STATE_CHANGE_EVENT == "scarab.simulation.state_change"

\* new SimulationStateChange(state).  console.assert reports a state that is
\* not a key of SimulationState and goes on; after super(...) the state
\* field is assigned undefined.
SimulationStateChange_new(state, guid) ==
    Put(Event_new(SIMULATION_STATE_CHANGE_EVENT, << >>, guid),
        "state", Undefined)

\* The names events are given, and the properties: none or a state.
EventNames == {"a", "b"}

EventProperties == {<< >>, [state |-> <<"paused">>]}

\* The states a state change is constructed with: the four simulation states
\* and one that is none of them.
GivenStates == DOMAIN SimulationState \cup {"stopped"}

IsEvent == subject = "Event"

InitEvents ==
    /\ subject = "Event"
    /\ strict = FALSE
    /\ priorities = << >>
    /\ eq = EQ_new(<< >>)
    /\ pq = PQ_new(<< >>)
    /\ call = NoCall
    /\ returned = << >>
    /\ nAdds = 0
    /\ nNexts = 0
    /\ calls = 0
    /\ hung = FALSE
    /\ twin = NoTwin
    /\ ed = ED_new(EntityName, << >>, uuidv4(0))
    /\ entities = << >>
    /\ uuids = 1
    /\ dispatched = NoDispatch
    /\ sim = SIM_new
    /\ handlerList = EHL_new
    /\ added = {}
    /\ evts = << >>
    /\ logger = StringLogger_new(<< >>)
    /\ enabled = {}
    /\ logged = NoLog

\* new Event(name, properties)
NewEvent(name, properties) ==
    /\ subject = "Event"
    /\ Len(evts) < MaxEvents
    /\ evts' = Append(evts, Event_new(name, properties, uuidv4(uuids)))
    /\ uuids' = uuids + 1
    /\ dispatched' = [NoDispatch EXCEPT !.op = "event",
                                        !.to = Len(evts) + 1,
                                        !.name = name]
    /\ UNCHANGED <<subject, strict, queueVars, loggingVars, ed, entities,
                   sim, handlerList, added>>

\* new SimulationStateChange(state)
NewStateChange(state) ==
    /\ subject = "Event"
    /\ Len(evts) < MaxEvents
    /\ evts' = Append(evts, SimulationStateChange_new(state, uuidv4(uuids)))
    /\ uuids' = uuids + 1
    /\ dispatched' = [NoDispatch EXCEPT !.op = "stateChange",
                                        !.to = Len(evts) + 1,
                                        !.kind = state]
    /\ UNCHANGED <<subject, strict, queueVars, loggingVars, ed, entities,
                   sim, handlerList, added>>

NextEvents ==
    \/ \E name \in EventNames, properties \in EventProperties :
          NewEvent(name, properties)
    \/ \E state \in GivenStates : NewStateChange(state)

SpecEvents == InitEvents /\ [][NextEvents]_vars

(* C39: the event new SimulationStateChange(s) constructs has the name     *)
(* "scarab.simulation.state_change" and has s as its state.                *)
C39_StateChangeCarriesState ==
    (IsEvent /\ dispatched.op = "stateChange"
             /\ dispatched.kind \in DOMAIN SimulationState) =>
        /\ evts[dispatched.to]["name"] = "scarab.simulation.state_change"
        /\ "state" \in DOMAIN evts[dispatched.to]
        /\ evts[dispatched.to]["state"] = <<dispatched.kind>>

====
